---- MODULE Spec2Model ----
(***************************************************************************)
(* Model of the KC868-AP runtime control core: StateManager,               *)
(* CommandProcessor and KC868Application._on_mqtt_command (src/main.py)    *)
(* over the PCA9685 / RelayController drivers (src/hardware.py) and the    *)
(* MQTT state publishers (src/mqtt_manager.py).                            *)
(*                                                                         *)
(* Python strings are sequences of one-character strings, so that          *)
(* startswith / endswith / split / replace / upper / int() / f-strings are *)
(* computed the way the code computes them.                                *)
(***************************************************************************)
EXTENDS Integers, Sequences, FiniteSets, TLC

VARIABLES
    dimmer_levels,         \* StateManager.dimmer_levels        (name -> 0..100)
    last_non_zero_levels,  \* StateManager.last_non_zero_levels (name -> 1..100)
    relay_states,          \* StateManager.relay_states         (name -> BOOLEAN)
    input_states,          \* StateManager.input_states         (name -> BOOLEAN)
    last_update,           \* StateManager.last_update          (ticks)
    pca_valid,             \* PCA9685.is_valid
    pca_regs,              \* PCA9685 LEDn registers: channel -> <<ON_L, ON_H, OFF_L, OFF_H>>
    prev_inputs,           \* InputScanner._scan_loop's prev_inputs
    rc_states,             \* RelayController.states            (name -> BOOLEAN)
    relay_pins,            \* the two relay GPIO pins           (1..2 -> 0..1)
    req,                   \* the request handled by the last step
    resp,                  \* what the last step returned to its caller
    effects,               \* hardware writes, state updates and publishes of the last step, in order
    toggled,               \* the relay the previous direct command toggled, and what it held before
    running,               \* InputScanner.running
    scan_pc,               \* where the scan thread stands in _scan_loop
    current_inputs,        \* the states dict the scan thread is reading
    stop_returned,         \* InputScanner.stop() has returned
    bus,                   \* the threads with a transfer in progress on the I2C bus object
    main_pc,               \* the register write the command path has reached in set_pwm
    lock,                  \* the holder of StateManager.lock
    sm_pc,                 \* thread -> where it stands in a StateManager method
    sm_arg,                \* thread -> the StateManager call it is making
    reader_snap,           \* the dict get_state() is building
    passed,                \* the <<channel, level>> pairs of the update_dimmer calls that returned
    app_pc,                \* where KC868Application.run() stands
    hardware_manager,      \* self.hardware_manager is not None
    input_scanner,         \* self.input_scanner is not None
    mqtt,                  \* self.mqtt: "unset" while the attribute does not exist
    connected,             \* MQTTManager.connected
    tasks,                 \* the periodic and the MQTT task have been created
    trace,                 \* the steps of startup and shutdown taken so far, in order
    discovery_seen         \* what the previous publish_discovery() call emitted

\* the position of the threads inside the scanner, the bus and the StateManager
threads == <<running, scan_pc, current_inputs, stop_returned, bus, main_pc,
             lock, sm_pc, sm_arg, reader_snap, passed>>

\* the application object and its MQTT transport
life == <<app_pc, hardware_manager, input_scanner, mqtt, connected, tasks, trace,
          discovery_seen>>

vars == <<dimmer_levels, last_non_zero_levels, relay_states, input_states, last_update,
          pca_valid, pca_regs, prev_inputs, rc_states, relay_pins, req, resp, effects,
          toggled, threads, life>>

-----------------------------------------------------------------------------
(* Bounds of the model *)

\* last_update is a ticks_ms() reading; readings are capped at MaxTicks
MaxTicks == 1

-----------------------------------------------------------------------------
(* Python string helpers *)

DigitChars == <<"0", "1", "2", "3", "4", "5", "6", "7", "8", "9">>
LowerChars == <<"a", "b", "c", "d", "e", "f", "g", "h", "i", "j", "k", "l", "m",
                "n", "o", "p", "q", "r", "s", "t", "u", "v", "w", "x", "y", "z">>
UpperChars == <<"A", "B", "C", "D", "E", "F", "G", "H", "I", "J", "K", "L", "M",
                "N", "O", "P", "Q", "R", "S", "T", "U", "V", "W", "X", "Y", "Z">>

IsDigit(c) == \E i \in 1..10 : DigitChars[i] = c
DigitVal(c) == (CHOOSE i \in 1..10 : DigitChars[i] = c) - 1

\* str.upper()
UpperChar(c) ==
    IF \E i \in 1..26 : LowerChars[i] = c
    THEN UpperChars[CHOOSE i \in 1..26 : LowerChars[i] = c]
    ELSE c
Upper(s) == [i \in 1..Len(s) |-> UpperChar(s[i])]

\* str.startswith(p), str.endswith(p)
StartsWith(s, p) == Len(s) >= Len(p) /\ SubSeq(s, 1, Len(p)) = p
EndsWith(s, p) == Len(s) >= Len(p) /\ SubSeq(s, Len(s) - Len(p) + 1, Len(s)) = p

\* str.replace(p, ''): every non-overlapping occurrence of p removed, left to right
RECURSIVE Remove(_, _)
Remove(s, p) ==
    IF Len(s) = 0 THEN <<>>
    ELSE IF StartsWith(s, p) THEN Remove(SubSeq(s, Len(p) + 1, Len(s)), p)
    ELSE <<s[1]>> \o Remove(Tail(s), p)

\* str.split(c) for a one-character separator: the list of segments
RECURSIVE Split(_, _)
Split(s, c) ==
    IF \A i \in 1..Len(s) : s[i] # c THEN <<s>>
    ELSE LET k == CHOOSE i \in 1..Len(s) : s[i] = c /\ \A j \in 1..(i - 1) : s[j] # c
         IN  <<SubSeq(s, 1, k - 1)>> \o Split(SubSeq(s, k + 1, Len(s)), c)

\* str(n) / f"{n}" of an int
RECURSIVE FormatNat(_)
FormatNat(n) ==
    IF n < 10 THEN <<DigitChars[n + 1]>>
    ELSE FormatNat(n \div 10) \o <<DigitChars[(n % 10) + 1]>>
FormatInt(n) == IF n < 0 THEN <<"-">> \o FormatNat(0 - n) ELSE FormatNat(n)

\* int(s) of a str: an optional sign and one or more decimal digits; anything
\* else raises ValueError (ok = FALSE).  The strings drawn below hold no
\* whitespace and no underscore, the two other things int() tolerates.
RECURSIVE DigitsValue(_)
DigitsValue(s) ==
    IF Len(s) = 0 THEN 0
    ELSE 10 * DigitsValue(SubSeq(s, 1, Len(s) - 1)) + DigitVal(s[Len(s)])
AllDigits(s) == Len(s) > 0 /\ \A i \in 1..Len(s) : IsDigit(s[i])
ParseInt(s) ==
    IF AllDigits(s) THEN [ok |-> TRUE, n |-> DigitsValue(s)]
    ELSE IF Len(s) > 1 /\ s[1] = "-" /\ AllDigits(Tail(s))
         THEN [ok |-> TRUE, n |-> 0 - DigitsValue(Tail(s))]
    ELSE IF Len(s) > 1 /\ s[1] = "+" /\ AllDigits(Tail(s))
         THEN [ok |-> TRUE, n |-> DigitsValue(Tail(s))]
    ELSE [ok |-> FALSE, n |-> 0]

Min(a, b) == IF a < b THEN a ELSE b
Max(a, b) == IF a > b THEN a ELSE b

-----------------------------------------------------------------------------
(* Python values carried by commands and payloads *)

\* a scalar value: t is its Python type, s its text (str), n its number (int, bool)
Absent    == [t |-> "absent", s |-> <<>>, n |-> 0]
PyNone    == [t |-> "null",   s |-> <<>>, n |-> 0]
PyList    == [t |-> "list",   s |-> <<>>, n |-> 0]
PyIntV(n) == [t |-> "int",    s |-> <<>>, n |-> n]
PyStrV(s) == [t |-> "str",    s |-> s,    n |-> 0]
PyBoolV(b) == [t |-> "bool",  s |-> <<>>, n |-> IF b THEN 1 ELSE 0]

\* int(v): int and bool convert, a str is parsed, None and list raise TypeError
PyInt(v) ==
    CASE v.t = "int"  -> [ok |-> TRUE, n |-> v.n]
      [] v.t = "bool" -> [ok |-> TRUE, n |-> v.n]
      [] v.t = "str"  -> ParseInt(v.s)
      [] OTHER        -> [ok |-> FALSE, n |-> 0]

\* str(v)
PyStr(v) ==
    CASE v.t = "str"  -> v.s
      [] v.t = "int"  -> FormatInt(v.n)
      [] v.t = "bool" -> IF v.n = 1 THEN <<"T", "r", "u", "e">> ELSE <<"F", "a", "l", "s", "e">>
      [] v.t = "null" -> <<"N", "o", "n", "e">>
      [] OTHER        -> <<"[", "]">>

-----------------------------------------------------------------------------
(* Names and topics *)

S_PWM   == <<"P", "W", "M">>
S_Relay == <<"R", "e", "l", "a", "y">>
S_ON    == <<"O", "N">>
S_OFF   == <<"O", "F", "F">>
S_set   == <<"/", "s", "e", "t">>

\* config 'mqtt.base_topic'
BaseTopic == <<"k", "c", "8", "6", "8", "-", "a", "p">>

PwmName(i)   == S_PWM \o FormatInt(i)        \* f"PWM{i}"
RelayName(i) == S_Relay \o FormatInt(i)      \* f"Relay{i}"

DimmerPrefix == BaseTopic \o <<"/", "d", "i", "m", "m", "e", "r", "/">>
RelayPrefix  == BaseTopic \o <<"/", "r", "e", "l", "a", "y", "/">>
DimmerStateTopic(i) == DimmerPrefix \o FormatInt(i) \o <<"/", "s", "t", "a", "t", "e">>
RelayStateTopic(i)  == RelayPrefix \o FormatInt(i) \o <<"/", "s", "t", "a", "t", "e">>

-----------------------------------------------------------------------------
(* Effects of one handler call, in program order *)

Eff(op, ch, key, val, aux) == [op |-> op, ch |-> ch, key |-> key, val |-> val, aux |-> aux]

-----------------------------------------------------------------------------
(* PCA9685 PWM driver *)

LED0_ON_L == 6

\* PCA9685.set_pwm(channel, on, off) with _write and _retry_operation inlined.
\* fault = k in 1..4: the k-th register write exhausts its retries and raises
\* HardwareError, the writes before it are done; fault = 0: no write fails.
\* With is_valid false every _write returns without touching the bus.
SetPwm(regs, valid, channel, on, off, fault) ==
    IF ~(0 <= channel /\ channel <= 15)
    THEN [err |-> "Channel must be between 0 and 15", regs |-> regs, log |-> <<>>]
    ELSE IF ~(0 <= on /\ on <= 4095) \/ ~(0 <= off /\ off <= 4095)
    THEN [err |-> "PWM values must be between 0 and 4095", regs |-> regs, log |-> <<>>]
    ELSE
      LET base_reg == LED0_ON_L + 4 * channel
          bytes == <<on % 256, on \div 256, off % 256, off \div 256>>
          done == IF ~valid THEN 0 ELSE IF fault = 0 THEN 4 ELSE fault - 1
      IN  [err  |-> IF valid /\ fault # 0 THEN "HardwareError" ELSE "",
           regs |-> [regs EXCEPT ![channel] =
                        [k \in 1..4 |-> IF k <= done THEN bytes[k] ELSE @[k]]],
           log  |-> [k \in 1..done |-> Eff("i2c_write", base_reg + k - 1, <<>>, bytes[k], "")]]

\* the pulse rounded to the nearest count instead of truncated
PulseRounded(level_percent) == (2 * level_percent * 4095 + 100) \div 200

\* pulse = int(level_percent * 4095 / 100)
Pulse(level_percent) == (level_percent * 4095) \div 100

\* PCA9685.set_level(channel, level_percent)
SetLevel(regs, valid, channel, level_percent, fault) ==
    IF ~(0 <= channel /\ channel <= 15)
    THEN [err |-> "Channel must be between 0 and 15", regs |-> regs, log |-> <<>>]
    ELSE LET level == Max(0, Min(100, level_percent))
             r == SetPwm(regs, valid, channel, 0, Pulse(level), fault)
         IN  [r EXCEPT !.log = <<Eff("set_level", channel, <<>>, level_percent, "")>> \o @]

\* the OFF count a channel's registers hold
OffCount(regs, channel) == regs[channel][3] + 256 * regs[channel][4]

-----------------------------------------------------------------------------
(* RelayController *)

BoolInt(b) == IF b THEN 1 ELSE 0

\* RelayController.set_relay(relay_name, state)
SetRelay(states, pins, relay_name, state) ==
    IF relay_name \notin DOMAIN states
    THEN [err |-> "Invalid relay name", states |-> states, pins |-> pins, log |-> <<>>]
    ELSE LET pin == IF relay_name = RelayName(1) THEN 1 ELSE 2
         IN  [err    |-> "",
              states |-> [states EXCEPT ![relay_name] = state],
              pins   |-> [pins EXCEPT ![pin] = BoolInt(state)],
              log    |-> <<Eff("relay_pin", pin, relay_name, BoolInt(state), "")>>]

\* toggle_relay switching the relay on whatever it holds
ToggleRelaySetsOn(states, pins, relay_name) ==
    IF relay_name \notin DOMAIN states
    THEN [err |-> "Invalid relay name", states |-> states, pins |-> pins, log |-> <<>>,
          new |-> FALSE]
    ELSE LET r == SetRelay(states, pins, relay_name, TRUE)
         IN  [err |-> r.err, states |-> r.states, pins |-> r.pins, log |-> r.log,
              new |-> TRUE]

\* RelayController.toggle_relay(relay_name): the new state is in .new
ToggleRelay(states, pins, relay_name) ==
    IF relay_name \notin DOMAIN states
    THEN [err |-> "Invalid relay name", states |-> states, pins |-> pins, log |-> <<>>,
          new |-> FALSE]
    ELSE LET new_state == ~states[relay_name]
             r == SetRelay(states, pins, relay_name, new_state)
         IN  [err |-> r.err, states |-> r.states, pins |-> r.pins, log |-> r.log,
              new |-> new_state]

-----------------------------------------------------------------------------
(* StateManager *)

\* d[k] = v for a Python dict d
Put(d, k, v) == [x \in (DOMAIN d) \cup {k} |-> IF x = k THEN v ELSE d[x]]

\* the DeviceState part of the state, as StateManager holds it
DeviceState ==
    [dimmers |-> dimmer_levels, last_non_zero |-> last_non_zero_levels,
     relays |-> relay_states, inputs |-> input_states, timestamp |-> last_update]

\* update_dimmer rebuilding the level map around the one entry it writes
UpdateDimmerResetsOthers(ds, channel, level, t) ==
    IF ~(0 <= level /\ level <= 100)
    THEN [err |-> "Dimmer level must be between 0 and 100", ds |-> ds, log |-> <<>>]
    ELSE [err |-> "",
          ds  |-> [ds EXCEPT !.dimmers = [k \in (DOMAIN @) \cup {channel} |->
                                             IF k = channel THEN level ELSE 0],
                             !.last_non_zero = IF level > 0 THEN Put(@, channel, level) ELSE @,
                             !.timestamp = t],
          log |-> <<Eff("update_dimmer", 0, channel, level, "")>>]

\* update_dimmer without its range check
UpdateDimmerUnchecked(ds, channel, level, t) ==
    [err |-> "",
     ds  |-> [ds EXCEPT !.dimmers = Put(@, channel, level),
                        !.last_non_zero = IF level > 0 THEN Put(@, channel, level) ELSE @,
                        !.timestamp = t],
     log |-> <<Eff("update_dimmer", 0, channel, level, "")>>]

\* update_dimmer recording level 0 as the last non-zero level too
UpdateDimmerTracksZero(ds, channel, level, t) ==
    IF ~(0 <= level /\ level <= 100)
    THEN [err |-> "Dimmer level must be between 0 and 100", ds |-> ds, log |-> <<>>]
    ELSE [err |-> "",
          ds  |-> [ds EXCEPT !.dimmers = Put(@, channel, level),
                             !.last_non_zero = Put(@, channel, level),
                             !.timestamp = t],
          log |-> <<Eff("update_dimmer", 0, channel, level, "")>>]

\* StateManager.update_dimmer(channel, level), t the ticks_ms() reading
UpdateDimmer(ds, channel, level, t) ==
    IF ~(0 <= level /\ level <= 100)
    THEN [err |-> "Dimmer level must be between 0 and 100", ds |-> ds, log |-> <<>>]
    ELSE [err |-> "",
          ds  |-> [ds EXCEPT !.dimmers = Put(@, channel, level),
                             !.last_non_zero = IF level > 0 THEN Put(@, channel, level) ELSE @,
                             !.timestamp = t],
          log |-> <<Eff("update_dimmer", 0, channel, level, "")>>]

\* StateManager.update_relay(relay_name, state)
UpdateRelay(ds, relay_name, state, t) ==
    IF relay_name \notin DOMAIN ds.relays
    THEN [err |-> "Invalid relay name", ds |-> ds, log |-> <<>>]
    ELSE [err |-> "",
          ds  |-> [ds EXCEPT !.relays = Put(@, relay_name, state), !.timestamp = t],
          log |-> <<Eff("update_relay", 0, relay_name, BoolInt(state), "")>>]

\* StateManager.get_state(): a copy of the four public fields
GetState(ds) ==
    [dimmers |-> ds.dimmers, relays |-> ds.relays, inputs |-> ds.inputs,
     timestamp |-> ds.timestamp]

-----------------------------------------------------------------------------
(* MQTT state publishers *)

\* publish_dimmer_state reporting level 0 as "ON"
PublishDimmerStateOnAtZero(channel_index, percent) ==
    Eff("publish", channel_index, DimmerStateTopic(channel_index), percent,
        IF percent >= 0 THEN "ON" ELSE "OFF")

\* MQTTManager.publish_dimmer_state(channel_index, percent): the retained
\* message {"state": ..., "brightness": ...} handed to the client
PublishDimmerState(channel_index, percent) ==
    Eff("publish", channel_index, DimmerStateTopic(channel_index), percent,
        IF percent > 0 THEN "ON" ELSE "OFF")

\* MQTTManager.publish_relay_state(relay_index, is_on)
PublishRelayState(relay_index, is_on) ==
    Eff("publish", relay_index, RelayStateTopic(relay_index), BoolInt(is_on),
        IF is_on THEN "ON" ELSE "OFF")

-----------------------------------------------------------------------------
(* CommandProcessor: the direct command interface *)

\* no relay was toggled by the previous direct command
NoToggle == [name |-> <<>>, state |-> FALSE, hw |-> FALSE, pin |-> 0, again |-> FALSE]

\* what a handler leaves behind: the exception it ended with ("" for none),
\* DeviceState, the PCA9685 registers, the relay controller and its pins, and
\* the effects in program order
Outcome(err, ds, regs, rc, pins, log) ==
    [err |-> err, ds |-> ds, regs |-> regs, rc |-> rc, pins |-> pins, log |-> log]

\* Python truthiness of a scalar, as used by "not channel"
Falsy(v) ==
    \/ v.t \in {"absent", "null", "list"}
    \/ v.t = "str" /\ Len(v.s) = 0
    \/ v.t \in {"int", "bool"} /\ v.n = 0

\* CommandProcessor._handle_dimmer_command(command)
HandleDimmerCommand(command, ds, regs, valid, rc, pins, fault, t) ==
    LET channel == command.channel
        value == IF command.value.t = "absent" THEN [ok |-> TRUE, n |-> 0]
                 ELSE PyInt(command.value)
        Raise(m) == Outcome(m, ds, regs, rc, pins, <<>>)
    IN  IF ~value.ok THEN Raise("int() argument is not a number")
        ELSE IF Falsy(channel) THEN Raise("Invalid dimmer channel")
        ELSE IF channel.t # "str" THEN Raise("object has no attribute 'startswith'")
        ELSE IF ~StartsWith(channel.s, S_PWM) THEN Raise("Invalid dimmer channel")
        ELSE
          LET channel_num == ParseInt(Remove(channel.s, S_PWM))
          IN  IF ~channel_num.ok THEN Raise("invalid literal for int()")
              ELSE IF ~(0 <= channel_num.n /\ channel_num.n <= 15)
              THEN Raise("Dimmer channel must be between 0 and 15")
              ELSE
                LET hw == SetLevel(regs, valid, channel_num.n, value.n, fault)
                    st == UpdateDimmer(ds, channel.s, value.n, t)
                IN  IF hw.err # "" THEN Outcome(hw.err, ds, hw.regs, rc, pins, hw.log)
                    ELSE Outcome(st.err, st.ds, hw.regs, rc, pins, hw.log \o st.log)

\* CommandProcessor._handle_relay_command(command)
HandleRelayCommand(command, ds, regs, rc, pins, t) ==
    LET channel == command.channel
    IN  IF channel.t # "str" \/ channel.s \notin DOMAIN ds.relays
        THEN Outcome("Invalid relay channel", ds, regs, rc, pins, <<>>)
        ELSE
          LET hw == ToggleRelay(rc, pins, channel.s)
              st == UpdateRelay(ds, channel.s, hw.new, t)
          IN  IF hw.err # "" THEN Outcome(hw.err, ds, regs, hw.states, hw.pins, hw.log)
              ELSE Outcome(st.err, st.ds, regs, hw.states, hw.pins, hw.log \o st.log)

\* the dict process_command returns: {"status": ...} or, for get_state, the
\* snapshot itself (status "absent": the dict has no status key)
Response(status, message, snap) ==
    [kind |-> "dict", status |-> status, message |-> message, snap |-> snap]
NoResponse(message) ==
    [kind |-> "none", status |-> "", message |-> message, snap |-> <<>>]

\* CommandProcessor.process_command(command)
ProcessCommand(command, fault, t) ==
    LET ds == DeviceState
        outcome ==
             CASE command.type = "set_dimmer" ->
                    HandleDimmerCommand(command, ds, pca_regs, pca_valid, rc_states,
                                        relay_pins, fault, t)
               [] command.type = "toggle_relay" ->
                    HandleRelayCommand(command, ds, pca_regs, rc_states, relay_pins, t)
               [] command.type = "get_state" ->
                    Outcome("", ds, pca_regs, rc_states, relay_pins, <<>>)
               [] OTHER ->
                    Outcome("Unknown command type", ds, pca_regs, rc_states, relay_pins, <<>>)
    IN  \E o \in {outcome} :
        /\ dimmer_levels' = o.ds.dimmers
        /\ last_non_zero_levels' = o.ds.last_non_zero
        /\ relay_states' = o.ds.relays
        /\ input_states' = o.ds.inputs
        /\ last_update' = o.ds.timestamp
        /\ pca_regs' = o.regs
        /\ rc_states' = o.rc
        /\ relay_pins' = o.pins
        /\ effects' = o.log
        /\ resp' = IF o.err # "" THEN Response("error", o.err, <<>>)
                   ELSE IF command.type = "get_state" THEN Response("absent", "", <<GetState(ds)>>)
                   ELSE Response("success", "", <<>>)
        /\ req' = [kind |-> "direct", command |-> command, fault |-> fault]
        /\ toggled' = IF command.type = "toggle_relay" /\ o.err = ""
                      THEN [name  |-> command.channel.s,
                            state |-> relay_states[command.channel.s],
                            hw    |-> rc_states[command.channel.s],
                            pin   |-> relay_pins[IF command.channel.s = RelayName(1)
                                                 THEN 1 ELSE 2],
                            again |-> toggled.name = command.channel.s]
                      ELSE NoToggle
        /\ UNCHANGED <<pca_valid, life, prev_inputs, threads>>

-----------------------------------------------------------------------------
(* KC868Application._on_mqtt_command: the MQTT command router *)

\* a decoded payload: a dict with optional brightness (b) and state (st)
\* entries, or the scalar v
DictPayload(b, st) == [isdict |-> TRUE, v |-> Absent, b |-> b, st |-> st]
ScalarPayload(v)   == [isdict |-> FALSE, v |-> v, b |-> Absent, st |-> Absent]

\* a level under resolution: None, an int, or an exception raised on the way
LevelNone   == [none |-> TRUE, raised |-> FALSE, n |-> 0]
LevelOf(n)  == [none |-> FALSE, raised |-> FALSE, n |-> n]
LevelRaised == [none |-> TRUE, raised |-> TRUE, n |-> 0]

\* the dict branch giving brightness precedence over the state entry
ResolveDictLevelBrightnessFirst(payload) ==
    LET i == PyInt(payload.b)
        state_str == Upper(PyStr(payload.st))
    IN  IF payload.b.t # "absent" THEN (IF i.ok THEN LevelOf(i.n) ELSE LevelRaised)
        ELSE IF payload.st.t = "absent" THEN LevelNone
        ELSE IF state_str = S_OFF THEN LevelOf(0)
        ELSE IF state_str = S_ON THEN LevelOf(100)
        ELSE LevelNone

\* the dict branch: brightness first, then state (OFF always, ON only while
\* the level is still None)
ResolveDictLevel(payload) ==
    LET b == IF payload.b.t = "absent" THEN LevelNone
             ELSE LET i == PyInt(payload.b)
                  IN  IF i.ok THEN LevelOf(i.n) ELSE LevelRaised
        state_str == Upper(PyStr(payload.st))
    IN  IF b.raised \/ payload.st.t = "absent" THEN b
        ELSE IF state_str = S_OFF THEN LevelOf(0)
        ELSE IF state_str = S_ON /\ b.none THEN LevelOf(100)
        ELSE b

\* the non-dict branch comparing the payload without upper()
ResolveScalarLevelCaseSensitive(payload) ==
    LET i == PyInt(payload.v)
    IN  IF payload.v.t = "str" /\ payload.v.s = S_OFF THEN LevelOf(0)
        ELSE IF payload.v.t = "str" /\ payload.v.s = S_ON THEN LevelOf(100)
        ELSE IF i.ok THEN LevelOf(i.n)
        ELSE LevelOf(0)

\* the non-dict branch: ON / OFF / int(payload), 0 when int() raises
ResolveScalarLevel(payload) ==
    LET i == PyInt(payload.v)
    IN  IF payload.v.t = "str" /\ Upper(payload.v.s) = S_OFF THEN LevelOf(0)
        ELSE IF payload.v.t = "str" /\ Upper(payload.v.s) = S_ON THEN LevelOf(100)
        ELSE IF i.ok THEN LevelOf(i.n)
        ELSE LevelOf(0)

ResolveLevel(payload) ==
    IF payload.isdict THEN ResolveDictLevel(payload) ELSE ResolveScalarLevel(payload)

\* the level passed on without clamping
ClampLevelIdentity(n) == n

\* max(0, min(100, int(level)))
ClampLevel(n) == Max(0, Min(100, n))

\* the dimmer branch recording the level before the hardware write is known
\* to have succeeded
MqttDimmerUpdateFirst(topic, payload, ds, regs, valid, rc, pins, fault, t) ==
    LET idx == ParseInt(Split(topic, "/")[3])
        level == ResolveLevel(payload)
        Raise(m) == Outcome(m, ds, regs, rc, pins, <<>>)
    IN  IF ~idx.ok THEN Raise("invalid literal for int()")
        ELSE IF level.raised THEN Raise("int() argument is not a number")
        ELSE IF ~(0 <= idx.n /\ idx.n <= 15) THEN Outcome("", ds, regs, rc, pins, <<>>)
        ELSE IF level.none THEN Raise("int() argument must not be NoneType")
        ELSE
          LET hw == SetLevel(regs, valid, idx.n, ClampLevel(level.n), fault)
              st == UpdateDimmer(ds, PwmName(idx.n), ClampLevel(level.n), t)
          IN  IF st.err # "" THEN Outcome(st.err, ds, regs, rc, pins, <<>>)
              ELSE IF hw.err # "" THEN Outcome(hw.err, st.ds, hw.regs, rc, pins, st.log \o hw.log)
              ELSE Outcome("", st.ds, hw.regs, rc, pins,
                           st.log \o hw.log \o <<PublishDimmerState(idx.n, ClampLevel(level.n))>>)

\* the dimmer branch of _on_mqtt_command
MqttDimmer(topic, payload, ds, regs, valid, rc, pins, fault, t) ==
    LET idx == ParseInt(Split(topic, "/")[3])
        level == ResolveLevel(payload)
        Raise(m) == Outcome(m, ds, regs, rc, pins, <<>>)
    IN  IF ~idx.ok THEN Raise("invalid literal for int()")
        ELSE IF level.raised THEN Raise("int() argument is not a number")
        ELSE IF ~(0 <= idx.n /\ idx.n <= 15) THEN Outcome("", ds, regs, rc, pins, <<>>)
        ELSE IF level.none THEN Raise("int() argument must not be NoneType")
        ELSE
          LET hw == SetLevel(regs, valid, idx.n, ClampLevel(level.n), fault)
              st == UpdateDimmer(ds, PwmName(idx.n), ClampLevel(level.n), t)
          IN  IF hw.err # "" THEN Outcome(hw.err, ds, hw.regs, rc, pins, hw.log)
              ELSE IF st.err # "" THEN Outcome(st.err, ds, hw.regs, rc, pins, hw.log)
              ELSE Outcome("", st.ds, hw.regs, rc, pins,
                           hw.log \o st.log \o <<PublishDimmerState(idx.n, ClampLevel(level.n))>>)

\* the desired relay state toggling on every text that is neither ON nor OFF
ResolveDesiredToggleUnknown(payload, current) ==
    LET text == IF ~payload.isdict /\ payload.v.t = "str" THEN Upper(payload.v.s)
                ELSE IF payload.isdict /\ payload.st.t # "absent" THEN Upper(PyStr(payload.st))
                ELSE <<>>
    IN  IF text = S_ON THEN TRUE ELSE IF text = S_OFF THEN FALSE ELSE ~current

\* the desired relay state: from a str payload, from a dict's state entry,
\* otherwise the negation of what DeviceState holds
ResolveDesired(payload, current) ==
    IF ~payload.isdict /\ payload.v.t = "str" THEN Upper(payload.v.s) = S_ON
    ELSE IF payload.isdict /\ payload.st.t # "absent" THEN Upper(PyStr(payload.st)) = S_ON
    ELSE ~current

\* the relay branch publishing the desired state before switching the relay
MqttRelayPublishFirst(topic, payload, ds, regs, rc, pins, t) ==
    LET idx == ParseInt(Split(topic, "/")[3])
    IN  IF ~idx.ok THEN Outcome("invalid literal for int()", ds, regs, rc, pins, <<>>)
        ELSE
          LET channel == RelayName(idx.n)
          IN  IF channel \notin DOMAIN ds.relays THEN Outcome("", ds, regs, rc, pins, <<>>)
              ELSE
                LET desired == ResolveDesired(payload, ds.relays[channel])
                    hw == SetRelay(rc, pins, channel, desired)
                    st == UpdateRelay(ds, channel, desired, t)
                IN  Outcome("", st.ds, regs, hw.states, hw.pins,
                            <<PublishRelayState(idx.n, desired)>> \o hw.log \o st.log)

\* the relay branch of _on_mqtt_command
MqttRelay(topic, payload, ds, regs, rc, pins, t) ==
    LET idx == ParseInt(Split(topic, "/")[3])
    IN  IF ~idx.ok THEN Outcome("invalid literal for int()", ds, regs, rc, pins, <<>>)
        ELSE
          LET channel == RelayName(idx.n)
          IN  IF channel \notin DOMAIN ds.relays THEN Outcome("", ds, regs, rc, pins, <<>>)
              ELSE
                LET desired == ResolveDesired(payload, ds.relays[channel])
                    hw == SetRelay(rc, pins, channel, desired)
                    st == UpdateRelay(ds, channel, desired, t)
                IN  IF hw.err # "" THEN Outcome(hw.err, ds, regs, hw.states, hw.pins, hw.log)
                    ELSE IF st.err # "" THEN Outcome(st.err, ds, regs, hw.states, hw.pins, hw.log)
                    ELSE Outcome("", st.ds, regs, hw.states, hw.pins,
                                 hw.log \o st.log \o <<PublishRelayState(idx.n, desired)>>)

\* which branch of _on_mqtt_command a topic takes
IsDimmerTopic(topic) == StartsWith(topic, DimmerPrefix) /\ EndsWith(topic, S_set)
IsRelayTopic(topic)  == StartsWith(topic, RelayPrefix) /\ EndsWith(topic, S_set)

\* KC868Application._on_mqtt_command(topic, payload): every exception is
\* caught and logged at debug level (resp.message), nothing is returned
OnMqttCommand(topic, payload, fault, t) ==
    LET ds == DeviceState
        outcome ==
             IF IsDimmerTopic(topic)
             THEN MqttDimmer(topic, payload, ds, pca_regs, pca_valid, rc_states, relay_pins,
                             fault, t)
             ELSE IF IsRelayTopic(topic)
             THEN MqttRelay(topic, payload, ds, pca_regs, rc_states, relay_pins, t)
             ELSE Outcome("", ds, pca_regs, rc_states, relay_pins, <<>>)
    IN  \E o \in {outcome} :
        /\ dimmer_levels' = o.ds.dimmers
        /\ last_non_zero_levels' = o.ds.last_non_zero
        /\ relay_states' = o.ds.relays
        /\ input_states' = o.ds.inputs
        /\ last_update' = o.ds.timestamp
        /\ pca_regs' = o.regs
        /\ rc_states' = o.rc
        /\ relay_pins' = o.pins
        /\ effects' = o.log
        /\ resp' = NoResponse(o.err)
        /\ req' = [kind |-> "mqtt", topic |-> topic, payload |-> payload, fault |-> fault]
        /\ toggled' = NoToggle
        /\ UNCHANGED <<pca_valid, life, prev_inputs, threads>>

-----------------------------------------------------------------------------
(* InputScanner: one iteration of _scan_loop *)

\* f"X{i:02d}"
InputName(i) == <<"X">> \o (IF i < 10 THEN <<"0">> ELSE <<>>) \o FormatInt(i)

\* bool(data & (1 << i))
BitSet(data, i) == (data \div (2 ^ i)) % 2 = 1

\* get_input_states() reporting a set bit as true
GetInputStatesActiveHigh(d1, d2) ==
    LET names == {InputName(i + 1) : i \in {j \in 0..7 : d1 # -1}}
                 \cup {InputName(i + 9) : i \in {j \in 0..7 : d2 # -1}}
        Index(nm) == CHOOSE i \in 1..16 : InputName(i) = nm
    IN  [nm \in names |->
            IF Index(nm) <= 8 THEN BitSet(d1, Index(nm) - 1)
            ELSE BitSet(d2, Index(nm) - 9)]

\* HardwareManager.get_input_states(): d1, d2 are what read_all() returned
\* for the two expanders, a byte or None (-1) when the read failed or the
\* expander is not valid
GetInputStates(d1, d2) ==
    LET names == {InputName(i + 1) : i \in {j \in 0..7 : d1 # -1}}
                 \cup {InputName(i + 9) : i \in {j \in 0..7 : d2 # -1}}
        Index(nm) == CHOOSE i \in 1..16 : InputName(i) = nm
    IN  [nm \in names |->
            IF Index(nm) <= 8 THEN ~BitSet(d1, Index(nm) - 1)
            ELSE ~BitSet(d2, Index(nm) - 9)]

\* update_inputs replacing the inputs dict by the new snapshot
UpdateInputsReplaces(ds, inputs, t) ==
    [ds EXCEPT !.inputs = inputs, !.timestamp = t]

\* StateManager.update_inputs(inputs): dict.update
UpdateInputs(ds, inputs, t) ==
    [ds EXCEPT !.inputs = [nm \in (DOMAIN @) \cup (DOMAIN inputs) |->
                              IF nm \in DOMAIN inputs THEN inputs[nm] ELSE @[nm]],
               !.timestamp = t]

\* every input of the new snapshot logged, changed or not
ChangedInputsAll(prev, current) == DOMAIN current

\* the inputs _scan_loop logs: those whose state differs from the previous
\* snapshot's, or that the previous snapshot does not hold
ChangedInputs(prev, current) ==
    {nm \in DOMAIN current : nm \notin DOMAIN prev \/ prev[nm] # current[nm]}

\* one "input_change" effect for each logged input among X<i>..X16
RECURSIVE ChangeLog(_, _, _)
ChangeLog(changed, current, i) ==
    IF i > 16 THEN <<>>
    ELSE (IF InputName(i) \in changed
          THEN <<Eff("input_change", i, InputName(i), BoolInt(current[InputName(i)]), "")>>
          ELSE <<>>) \o ChangeLog(changed, current, i + 1)

\* the body of the while loop of InputScanner._scan_loop after the read:
\* compare with the previous snapshot, log the changed inputs, merge, remember
ScanOutcome(prev, current, ds, t) ==
    IF current # prev
    THEN [ds   |-> UpdateInputs(ds, current, t),
          prev |-> current,
          log  |-> ChangeLog(ChangedInputs(prev, current), current, 1)
                   \o <<Eff("update_inputs", Cardinality(DOMAIN current), <<>>, 0, "")>>]
    ELSE [ds |-> ds, prev |-> prev, log |-> <<>>]

\* one whole iteration of the while loop of InputScanner._scan_loop, from the
\* test of self.running to the sleep: read, compare, log, merge, remember
ScanInputs(d1, d2, t) ==
    \E o \in {ScanOutcome(prev_inputs, GetInputStates(d1, d2), DeviceState, t)} :
        /\ running
        /\ scan_pc = "while"
        /\ input_states' = o.ds.inputs
        /\ last_update' = o.ds.timestamp
        /\ prev_inputs' = o.prev
        /\ effects' = o.log
        /\ req' = [kind |-> "scan", d1 |-> d1, d2 |-> d2]
        /\ resp' = NoResponse("")
        /\ UNCHANGED <<dimmer_levels, last_non_zero_levels, relay_states, pca_valid, life, pca_regs,
                       rc_states, relay_pins, toggled, threads>>

-----------------------------------------------------------------------------
(* Initial state: KC868Application initialised, the input scanner started *)

EmptyDict == [x \in {} |-> FALSE]

\* the threads that call into the StateManager: the scan thread, the command
\* path and a reader of snapshots
Threads == {"scanner", "command", "reader"}

\* no StateManager call in progress
NoCall == [op |-> "", key |-> <<>>, val |-> 0, t |-> 0]

\* the dict of get_state() before its entries are evaluated
EmptySnapshot ==
    [dimmers |-> EmptyDict, relays |-> EmptyDict, inputs |-> EmptyDict, timestamp |-> 0]

Init ==
    /\ dimmer_levels = [nm \in {PwmName(i) : i \in 0..15} |-> 0]
    /\ last_non_zero_levels = [nm \in {PwmName(i) : i \in 0..15} |-> 100]
    /\ relay_states = [nm \in {RelayName(1), RelayName(2)} |-> FALSE]
    /\ input_states = EmptyDict
    /\ last_update = 0
    /\ pca_valid \in BOOLEAN
    /\ pca_regs = [c \in 0..15 |-> <<0, 0, 0, 0>>]
    /\ prev_inputs = EmptyDict
    /\ rc_states = [nm \in {RelayName(1), RelayName(2)} |-> FALSE]
    /\ relay_pins = [p \in 1..2 |-> 0]
    /\ req = [kind |-> "idle"]
    /\ resp = NoResponse("")
    /\ effects = <<>>
    /\ toggled = NoToggle
    /\ running = TRUE
    /\ scan_pc = "while"
    /\ current_inputs = EmptyDict
    /\ stop_returned = FALSE
    /\ bus = {}
    /\ main_pc = 0
    /\ lock = "free"
    /\ sm_pc = [t \in Threads |-> "idle"]
    /\ sm_arg = [t \in Threads |-> NoCall]
    /\ reader_snap = EmptySnapshot
    /\ passed = {}
    /\ app_pc = "running"
    /\ hardware_manager = TRUE
    /\ input_scanner = TRUE
    /\ mqtt = "set"
    /\ connected = TRUE
    /\ tasks = TRUE
    /\ trace = <<"hardware_init", "network_check", "wiring", "mqtt_connect", "discovery",
                "scanner_start", "tasks", "run_loop">>
    /\ discovery_seen = <<>>

-----------------------------------------------------------------------------
(* The handlers run one at a time on the event loop: a step is taken only   *)
(* when the previous one has returned                                       *)

Idle == req.kind = "idle"

\* the previous handler's result has been consumed
Return ==
    /\ ~Idle
    /\ req' = [kind |-> "idle"]
    /\ resp' = NoResponse("")
    /\ effects' = <<>>
    /\ UNCHANGED <<dimmer_levels, last_non_zero_levels, relay_states, input_states,
                   last_update, pca_valid, life, pca_regs, prev_inputs, rc_states, relay_pins,
                   toggled, threads>>

-----------------------------------------------------------------------------
(* The inputs the steps draw from *)

Command(type, channel, value) == [type |-> type, channel |-> channel, value |-> value]

\* channel 3 is driven with every value and every bus fault, channel 15 only
\* to full brightness; the channels that name no dimmer come with a level and
\* without one
DimmerCommands ==
    {Command("set_dimmer", PyStrV(PwmName(3)), v) :
        v \in {PyIntV(0), PyIntV(42), PyIntV(100), PyIntV(101), PyIntV(-1), PyNone, Absent}}
    \cup {Command("set_dimmer", c, v) :
            c \in {PyStrV(PwmName(16)), PyStrV(<<"p", "w", "m", "3">>), PyStrV(RelayName(1)),
                   PyStrV(<<"P", "W", "M", "x">>), PyStrV(<<>>), PyIntV(3), Absent},
            v \in {PyIntV(42), Absent}}
    \cup {Command("set_dimmer", PyStrV(PwmName(15)), PyIntV(100)),
          Command("set_dimmer", PyStrV(PwmName(3) \o S_PWM), PyIntV(42))}
RelayCommands ==
    {Command("toggle_relay", c, Absent) :
        c \in {PyStrV(RelayName(1)), PyStrV(RelayName(2)), PyStrV(RelayName(3)),
               PyStrV(PwmName(3)), PyIntV(1), Absent}}
OtherCommands ==
    {Command("get_state", Absent, Absent), Command("reboot", Absent, Absent),
     Command("", Absent, Absent)}

\* the register write of set_pwm that fails for good (0: none); channel 3 is
\* the one channel whose writes are made to fail
Faults == {0, 3}
FaultsOf(channel_text) == IF pca_valid /\ channel_text = <<"3">> THEN Faults ELSE {0}

Topic(prefix, idx, suffix) == prefix \o idx \o suffix
DimmerSet(idx) == Topic(DimmerPrefix, idx, S_set)
RelaySet(idx)  == Topic(RelayPrefix, idx, S_set)

ScalarPayloads ==
    {ScalarPayload(PyStrV(x)) : x \in {S_ON, <<"o", "n">>, S_OFF, <<"O", "f", "f">>,
                                       <<"4", "2">>, <<"1", "5", "0">>, <<"-", "5">>,
                                       <<"a", "b", "c">>, <<>>}}
    \cup {ScalarPayload(PyIntV(42)), ScalarPayload(PyIntV(150)), ScalarPayload(PyNone),
          ScalarPayload(PyList)}
DictPayloads ==
    {DictPayload(b, st) :
        b \in {Absent, PyIntV(42), PyIntV(150), PyIntV(-5), PyStrV(<<"a", "b", "c">>), PyNone},
        st \in {Absent, PyStrV(S_ON), PyStrV(<<"o", "f", "f">>), PyStrV(<<"a", "b", "c">>)}}
FewPayloads ==
    {ScalarPayload(PyStrV(S_ON)), ScalarPayload(PyIntV(42)), DictPayload(PyIntV(42), Absent),
     DictPayload(Absent, Absent)}

\* dimmer messages: channel 3 with every payload and fault, channel 15 switched on
DimmerMessages ==
    {<<DimmerSet(<<"3">>), p>> : p \in ScalarPayloads \cup DictPayloads}
    \cup {<<DimmerSet(<<"1", "5">>), ScalarPayload(PyStrV(S_ON))>>}
\* messages on topics that are no command topic, or carry no valid index
StrayMessages ==
    {<<tp, p>> :
        tp \in {DimmerSet(<<"1", "6">>), DimmerSet(<<"9", "9">>), DimmerSet(<<"-", "1">>),
                DimmerSet(<<"x">>), DimmerSet(<<>>),
                RelaySet(<<"0">>), RelaySet(<<"3">>), RelaySet(<<"x">>),
                DimmerStateTopic(3), RelayStateTopic(1), BaseTopic \o S_set,
                <<"x", "/">> \o DimmerSet(<<"3">>), DimmerSet(<<"3", "/", "x">>),
                BaseTopic \o <<"/", "d", "i", "m", "m", "e", "r">>},
        p \in FewPayloads}
\* relay messages
RelayMessages ==
    {<<RelaySet(i), p>> :
        i \in {<<"1">>, <<"2">>},
        p \in {ScalarPayload(PyStrV(x)) : x \in {S_ON, <<"o", "n">>, S_OFF, <<"o", "f", "f">>,
                                                 <<"a", "b", "c">>}}
              \cup {ScalarPayload(PyIntV(1)), ScalarPayload(PyNone),
                    DictPayload(Absent, Absent), DictPayload(PyIntV(42), Absent)}
              \cup {DictPayload(Absent, PyStrV(x)) : x \in {S_ON, <<"O", "f", "f">>,
                                                            <<"a", "b", "c">>}}}

\* the index segment of a topic, as text
IndexText(topic) == IF Len(Split(topic, "/")) >= 3 THEN Split(topic, "/")[3] ELSE <<>>

ScanBytes1 == {254}
ScanBytes2 == {255}

\* what read_all() of the two expanders returns to the scanner alone: bytes
\* that differ in one bit and in all bits, and None (-1) for a read that
\* exhausted its retries
InputBytes1 == {-1, 254, 255, 1}
InputBytes2 == {-1, 255, 127}

Ticks == last_update..MaxTicks

DirectDimmerStep ==
    /\ Idle
    /\ \E command \in DimmerCommands :
         \E fault \in FaultsOf(Remove(command.channel.s, S_PWM)), t \in Ticks :
            ProcessCommand(command, fault, t)

DirectRelayStep ==
    /\ Idle
    /\ \E command \in RelayCommands, t \in Ticks : ProcessCommand(command, 0, t)

DirectOtherStep ==
    /\ Idle
    /\ \E command \in OtherCommands : ProcessCommand(command, 0, last_update)

MqttDimmerStep ==
    /\ Idle
    /\ \E m \in DimmerMessages :
         \E fault \in FaultsOf(IndexText(m[1])), t \in Ticks :
            OnMqttCommand(m[1], m[2], fault, t)

MqttRelayStep ==
    /\ Idle
    /\ \E m \in RelayMessages, t \in Ticks : OnMqttCommand(m[1], m[2], 0, t)

MqttStrayStep ==
    /\ Idle
    /\ \E m \in StrayMessages : OnMqttCommand(m[1], m[2], 0, last_update)

ScanStep ==
    /\ Idle
    /\ \E d1 \in ScanBytes1, d2 \in ScanBytes2, t \in Ticks : ScanInputs(d1, d2, t)

ScanAnyStep ==
    /\ Idle
    /\ \E d1 \in InputBytes1, d2 \in InputBytes2, t \in Ticks : ScanInputs(d1, d2, t)

\* a direct call of PCA9685.set_level, as HardwareManager's users make it
SetLevelCall(channel, level_percent, fault) ==
    /\ Idle
    /\ \E r \in {SetLevel(pca_regs, pca_valid, channel, level_percent, fault)} :
         /\ pca_regs' = r.regs
         /\ effects' = r.log
         /\ resp' = NoResponse(r.err)
    /\ req' = [kind |-> "set_level", channel |-> channel, level |-> level_percent,
               fault |-> fault]
    /\ UNCHANGED <<dimmer_levels, last_non_zero_levels, relay_states, input_states,
                   last_update, pca_valid, life, prev_inputs, rc_states, relay_pins,
                   toggled, threads>>

\* the levels set_level is called with: every percent and the two just outside
DutyLevels == -1..101
SetLevelStep == \E level_percent \in DutyLevels : SetLevelCall(7, level_percent, 0)

-----------------------------------------------------------------------------
(* The scan thread and the main thread, statement by statement.  The scan   *)
(* thread runs _scan_loop; the main thread stops the scanner and writes the *)
(* PWM registers of channel 3, as the command path and the hardware         *)
(* shutdown do.  No lock guards the I2C bus object, so that a transfer of   *)
(* one thread can begin while a transfer of the other is in progress.       *)

\* what the handlers leave behind, and the StateManager call positions
handler == <<req, resp, effects, toggled>>
locking == <<lock, sm_pc, sm_arg, reader_snap, passed>>

\* the level the main thread writes
MainLevel == 42

\* what read_all() returns to the scan thread: a byte, or None (-1)
ThreadBytes1 == {-1, 254}
ThreadBytes2 == {255}

\* the loop test passing whatever the flag holds
ScanTestIgnoresFlag ==
    /\ scan_pc = "while"
    /\ scan_pc' = "read1"
    /\ current_inputs' = EmptyDict
    /\ UNCHANGED <<dimmer_levels, last_non_zero_levels, relay_states, input_states,
                   last_update, pca_valid, life, pca_regs, prev_inputs, rc_states, relay_pins,
                   handler, running, stop_returned, bus, main_pc, locking>>

\* "while self.running:" and, when it holds, the entry of get_input_states()
ScanTest ==
    /\ scan_pc = "while"
    /\ scan_pc' = IF running THEN "read1" ELSE "exited"
    /\ current_inputs' = EmptyDict
    /\ UNCHANGED <<dimmer_levels, last_non_zero_levels, relay_states, input_states,
                   last_update, pca_valid, life, pca_regs, prev_inputs, rc_states, relay_pins,
                   handler, running, stop_returned, bus, main_pc, locking>>

\* read_all() of an expander starts its i2c.readfrom
ScanReadBegin ==
    /\ scan_pc \in {"read1", "read2"}
    /\ scan_pc' = IF scan_pc = "read1" THEN "reading1" ELSE "reading2"
    /\ bus' = bus \cup {"scanner"}
    /\ UNCHANGED <<dimmer_levels, last_non_zero_levels, relay_states, input_states,
                   last_update, pca_valid, life, pca_regs, prev_inputs, rc_states, relay_pins,
                   handler, running, current_inputs, stop_returned, main_pc, locking>>

\* read_all() returns the byte d, or None (-1) after its retries, and
\* get_input_states() adds the eight inputs of the expander to states
ScanReadEnd(d) ==
    /\ scan_pc \in {"reading1", "reading2"}
    /\ LET read == IF scan_pc = "reading1" THEN GetInputStates(d, -1)
                   ELSE GetInputStates(-1, d)
       IN  current_inputs' = [nm \in (DOMAIN current_inputs) \cup (DOMAIN read) |->
                                 IF nm \in DOMAIN read THEN read[nm] ELSE current_inputs[nm]]
    /\ scan_pc' = IF scan_pc = "reading1" THEN "read2" ELSE "compare"
    /\ bus' = bus \ {"scanner"}
    /\ UNCHANGED <<dimmer_levels, last_non_zero_levels, relay_states, input_states,
                   last_update, pca_valid, life, pca_regs, prev_inputs, rc_states, relay_pins,
                   handler, running, stop_returned, main_pc, locking>>

\* the comparison with prev_inputs, the logging and the merge
ScanCompare(t) ==
    /\ scan_pc = "compare"
    /\ LET o == ScanOutcome(prev_inputs, current_inputs, DeviceState, t)
       IN  /\ input_states' = o.ds.inputs
           /\ last_update' = o.ds.timestamp
           /\ prev_inputs' = o.prev
    /\ scan_pc' = "sleep"
    /\ UNCHANGED <<dimmer_levels, last_non_zero_levels, relay_states, pca_valid, life, pca_regs,
                   rc_states, relay_pins, handler, running, current_inputs, stop_returned,
                   bus, main_pc, locking>>

\* time.sleep_ms(self.scan_interval) is over
ScanSleep ==
    /\ scan_pc = "sleep"
    /\ scan_pc' = "while"
    /\ UNCHANGED <<dimmer_levels, last_non_zero_levels, relay_states, input_states,
                   last_update, pca_valid, life, pca_regs, prev_inputs, rc_states, relay_pins,
                   handler, running, current_inputs, stop_returned, bus, main_pc, locking>>

\* InputScanner.stop(), called once, by shutdown()
Stop ==
    /\ ~stop_returned
    /\ running' = FALSE
    /\ stop_returned' = TRUE
    /\ UNCHANGED <<dimmer_levels, last_non_zero_levels, relay_states, input_states,
                   last_update, pca_valid, life, pca_regs, prev_inputs, rc_states, relay_pins,
                   handler, scan_pc, current_inputs, bus, main_pc, locking>>

\* main_pc = 2k: k register writes of set_pwm(3, 0, pulse) are done;
\* main_pc = 2k + 1: the write after them is in progress on the bus.
\* _write() of the next register starts its i2c.writeto, or returns at once
\* when the PCA9685 is not valid
MainWriteBegin ==
    /\ main_pc \in {0, 2, 4, 6}
    /\ IF pca_valid
       THEN /\ main_pc' = main_pc + 1
            /\ bus' = bus \cup {"main"}
       ELSE /\ main_pc' = main_pc + 2
            /\ bus' = bus
    /\ UNCHANGED <<dimmer_levels, last_non_zero_levels, relay_states, input_states,
                   last_update, pca_valid, life, pca_regs, prev_inputs, rc_states, relay_pins,
                   handler, running, scan_pc, current_inputs, stop_returned, locking>>

\* the i2c.writeto of the register is done
MainWriteEnd ==
    /\ main_pc \in {1, 3, 5, 7}
    /\ LET k == (main_pc + 1) \div 2
           r == SetPwm(pca_regs, pca_valid, 3, 0, Pulse(MainLevel), 0)
       IN  pca_regs' = [pca_regs EXCEPT ![3][k] = r.regs[3][k]]
    /\ main_pc' = main_pc + 1
    /\ bus' = bus \ {"main"}
    /\ UNCHANGED <<dimmer_levels, last_non_zero_levels, relay_states, input_states,
                   last_update, pca_valid, life, prev_inputs, rc_states, relay_pins,
                   handler, running, scan_pc, current_inputs, stop_returned, locking>>

\* set_level has returned: update_dimmer and the return of the command
MainFinish(t) ==
    /\ main_pc = 8
    /\ LET st == UpdateDimmer(DeviceState, PwmName(3), MainLevel, t)
       IN  /\ dimmer_levels' = st.ds.dimmers
           /\ last_non_zero_levels' = st.ds.last_non_zero
           /\ last_update' = st.ds.timestamp
    /\ main_pc' = 0
    /\ UNCHANGED <<relay_states, input_states, pca_valid, life, pca_regs, prev_inputs, rc_states,
                   relay_pins, handler, running, scan_pc, current_inputs, stop_returned,
                   bus, locking>>

NextThreads ==
    \/ ScanTest
    \/ ScanReadBegin
    \/ \E d \in IF scan_pc = "reading1" THEN ThreadBytes1 ELSE ThreadBytes2 : ScanReadEnd(d)
    \/ \E t \in Ticks : ScanCompare(t)
    \/ ScanSleep
    \/ Stop
    \/ MainWriteBegin
    \/ MainWriteEnd
    \/ \E t \in Ticks : MainFinish(t)

SpecThreads == Init /\ [][NextThreads]_vars

\* the scan thread is scheduled again and again: each of its statements,
\* once reached, is executed (a read ends with a byte or, after the bounded
\* retries of _retry_operation, with None)
ScanFairness ==
    /\ WF_vars(ScanTest)
    /\ WF_vars(ScanReadBegin)
    /\ WF_vars(\E d \in IF scan_pc = "reading1" THEN ThreadBytes1 ELSE ThreadBytes2 :
                    ScanReadEnd(d))
    /\ WF_vars(\E t \in Ticks : ScanCompare(t))
    /\ WF_vars(ScanSleep)

SpecThreadsFair == Init /\ [][NextThreads]_vars /\ ScanFairness

-----------------------------------------------------------------------------
(* The StateManager methods, statement by statement, called from three      *)
(* threads: update_inputs from the scan thread, update_dimmer and           *)
(* update_relay from the command path, get_state from a reader              *)

\* the lock taken by every thread that asks for it
LockIgnored(holder) == TRUE

\* "with self.lock:" is entered only while no thread holds the lock
LockFree(holder) == holder = "free"

Call(op, key, val) == [op |-> op, key |-> key, val |-> val, t |-> 0]

scanning == <<running, scan_pc, current_inputs, stop_returned, bus, main_pc>>

\* a thread enters a StateManager method
Enter(th, call) ==
    /\ sm_pc[th] = "idle"
    /\ sm_pc' = [sm_pc EXCEPT ![th] = "acquire"]
    /\ sm_arg' = [sm_arg EXCEPT ![th] = call]

\* update_dimmer(channel, level): the range check comes before the lock, a
\* level out of range raises ValueError and the call is over
CallUpdateDimmer(channel, level) ==
    /\ IF UpdateDimmer(DeviceState, channel, level, 0).err = ""
       THEN Enter("command", Call("update_dimmer", channel, level))
       ELSE sm_pc["command"] = "idle" /\ UNCHANGED <<sm_pc, sm_arg>>
    /\ UNCHANGED <<dimmer_levels, last_non_zero_levels, relay_states, input_states,
                   last_update, pca_valid, life, pca_regs, prev_inputs, rc_states, relay_pins,
                   handler, scanning, lock, reader_snap, passed>>

\* update_relay(relay_name, state)
CallUpdateRelay(relay_name, state) ==
    /\ IF UpdateRelay(DeviceState, relay_name, state, 0).err = ""
       THEN Enter("command", Call("update_relay", relay_name, state))
       ELSE sm_pc["command"] = "idle" /\ UNCHANGED <<sm_pc, sm_arg>>
    /\ UNCHANGED <<dimmer_levels, last_non_zero_levels, relay_states, input_states,
                   last_update, pca_valid, life, pca_regs, prev_inputs, rc_states, relay_pins,
                   handler, scanning, lock, reader_snap, passed>>

\* update_inputs(inputs)
CallUpdateInputs(inputs) ==
    /\ Enter("scanner", Call("update_inputs", <<>>, inputs))
    /\ UNCHANGED <<dimmer_levels, last_non_zero_levels, relay_states, input_states,
                   last_update, pca_valid, life, pca_regs, prev_inputs, rc_states, relay_pins,
                   handler, scanning, lock, reader_snap, passed>>

\* get_state()
CallGetState ==
    /\ Enter("reader", Call("get_state", <<>>, 0))
    /\ reader_snap' = EmptySnapshot
    /\ UNCHANGED <<dimmer_levels, last_non_zero_levels, relay_states, input_states,
                   last_update, pca_valid, life, pca_regs, prev_inputs, rc_states, relay_pins,
                   handler, scanning, lock, passed>>

\* "with self.lock:" is entered
Acquire(th) ==
    /\ sm_pc[th] = "acquire"
    /\ LockFree(lock)
    /\ lock' = th
    /\ sm_pc' = [sm_pc EXCEPT ![th] = "s1"]
    /\ UNCHANGED <<dimmer_levels, last_non_zero_levels, relay_states, input_states,
                   last_update, pca_valid, life, pca_regs, prev_inputs, rc_states, relay_pins,
                   handler, scanning, sm_arg, reader_snap, passed>>

\* the next statement of a mutator's "with" block: the write of the entry,
\* for update_dimmer the write of last_non_zero_levels, then the write of
\* last_update with the ticks_ms() reading t
MutatorStatement(th, t) ==
    LET call == sm_arg[th]
        pc == sm_pc[th]
    IN  /\ call.op \in {"update_dimmer", "update_relay", "update_inputs"}
        /\ pc \in {"s1", "s2", "s3"}
        /\ dimmer_levels' =
              IF call.op = "update_dimmer" /\ pc = "s1"
              THEN UpdateDimmer(DeviceState, call.key, call.val, t).ds.dimmers
              ELSE dimmer_levels
        /\ last_non_zero_levels' =
              IF call.op = "update_dimmer" /\ pc = "s2"
              THEN UpdateDimmer(DeviceState, call.key, call.val, t).ds.last_non_zero
              ELSE last_non_zero_levels
        /\ relay_states' =
              IF call.op = "update_relay" /\ pc = "s1"
              THEN UpdateRelay(DeviceState, call.key, call.val, t).ds.relays
              ELSE relay_states
        /\ input_states' =
              IF call.op = "update_inputs" /\ pc = "s1"
              THEN UpdateInputs(DeviceState, call.val, t).inputs
              ELSE input_states
        /\ last_update' = IF pc = "s3" THEN t ELSE last_update
        /\ sm_pc' = [sm_pc EXCEPT ![th] =
                        IF pc = "s3" THEN "release"
                        ELSE IF pc = "s1" /\ call.op = "update_dimmer" THEN "s2"
                        ELSE "s3"]
        /\ UNCHANGED <<pca_valid, life, pca_regs, prev_inputs, rc_states, relay_pins,
                       handler, scanning, lock, sm_arg, reader_snap, passed>>

\* the next entry of the dict get_state() returns: the copy of dimmer_levels,
\* of relay_states, of input_states, then last_update
ReaderStatement ==
    LET pc == sm_pc["reader"]
        now == GetState(DeviceState)
    IN  /\ pc \in {"s1", "s2", "s3", "s4"}
        /\ reader_snap' =
              CASE pc = "s1" -> [reader_snap EXCEPT !.dimmers = now.dimmers]
                [] pc = "s2" -> [reader_snap EXCEPT !.relays = now.relays]
                [] pc = "s3" -> [reader_snap EXCEPT !.inputs = now.inputs]
                [] pc = "s4" -> [reader_snap EXCEPT !.timestamp = now.timestamp]
        /\ sm_pc' = [sm_pc EXCEPT !["reader"] =
                        CASE pc = "s1" -> "s2" [] pc = "s2" -> "s3"
                          [] pc = "s3" -> "s4" [] pc = "s4" -> "release"]
        /\ UNCHANGED <<dimmer_levels, last_non_zero_levels, relay_states, input_states,
                       last_update, pca_valid, life, pca_regs, prev_inputs, rc_states, relay_pins,
                       handler, scanning, lock, sm_arg, passed>>

\* the "with" block is left and the method returns
Release(th) ==
    /\ sm_pc[th] = "release"
    /\ lock' = "free"
    /\ sm_pc' = [sm_pc EXCEPT ![th] = "idle"]
    /\ sm_arg' = [sm_arg EXCEPT ![th] = NoCall]
    /\ passed' = IF sm_arg[th].op = "update_dimmer"
                 THEN passed \cup {<<sm_arg[th].key, sm_arg[th].val>>}
                 ELSE passed
    /\ UNCHANGED <<dimmer_levels, last_non_zero_levels, relay_states, input_states,
                   last_update, pca_valid, life, pca_regs, prev_inputs, rc_states, relay_pins,
                   handler, scanning, reader_snap>>

\* the calls the three threads make
LockLevels == {0, 42, 101}
LockSnapshots == {GetInputStates(254, 255), GetInputStates(255, 255)}

NextLock ==
    \/ \E level \in LockLevels : CallUpdateDimmer(PwmName(3), level)
    \/ \E nm \in {RelayName(1), RelayName(3)}, state \in BOOLEAN : CallUpdateRelay(nm, state)
    \/ \E inputs \in LockSnapshots : CallUpdateInputs(inputs)
    \/ CallGetState
    \/ \E th \in Threads : Acquire(th)
    \/ \E th \in Threads, t \in Ticks : MutatorStatement(th, t)
    \/ ReaderStatement
    \/ \E th \in Threads : Release(th)

SpecLock == Init /\ [][NextLock]_vars

-----------------------------------------------------------------------------
(* MQTTManager: the transport, discovery and the message callback.  Every    *)
(* publish call of the source passes retain=True, so every "publish" and     *)
(* "discovery" effect is a retained message.                                 *)

S_online == <<"o", "n", "l", "i", "n", "e">>
S_state  == <<"/", "s", "t", "a", "t", "e">>

\* config 'mqtt.client_id' and 'mqtt.discovery_prefix'
ClientId == <<"k", "c", "8", "6", "8", "-", "a", "p">>
DiscoveryPrefix == <<"h", "o", "m", "e", "a", "s", "s", "i", "s", "t", "a", "n", "t">>

\* the topic connect() subscribes to for the broker's birth announcement
StatusTopic == <<"h", "o", "m", "e", "a", "s", "s", "i", "s", "t", "a", "n", "t", "/",
                 "s", "t", "a", "t", "u", "s">>

\* f"{self.base_topic}/availability"
AvailabilityTopic ==
    BaseTopic \o <<"/", "a", "v", "a", "i", "l", "a", "b", "i", "l", "i", "t", "y">>

InputPrefix == BaseTopic \o <<"/", "i", "n", "p", "u", "t", "/">>
InputStateTopic(i) == InputPrefix \o FormatInt(i) \o S_state

\* MQTTManager.publish_input_state(input_index, is_on)
PublishInputState(input_index, is_on) ==
    Eff("publish", input_index, InputStateTopic(input_index), BoolInt(is_on),
        IF is_on THEN "ON" ELSE "OFF")

\* how the transport turns out at startup: disabled in the configuration,
\* enabled without the umqtt library, enabled with a broker that refuses the
\* connection, enabled and accepted
MqttModes == {"disabled", "no_library", "refused", "ok"}

\* MQTTManager.connect(): _ensure_supported() raises MQTTUnavailable,
\* client.connect() raises OSError; connected is set after client.connect()
\* and the retained "online" follows
Connect(mode) ==
    IF mode \in {"disabled", "no_library"}
    THEN [raised |-> "MQTTUnavailable", connected |-> FALSE, log |-> <<>>]
    ELSE IF mode = "refused"
    THEN [raised |-> "OSError", connected |-> FALSE, log |-> <<>>]
    ELSE [raised |-> "", connected |-> TRUE,
          log |-> <<Eff("publish", 0, AvailabilityTopic, 1, "online")>>]

\* MQTTManager.disconnect(): the retained "offline", then connected = False
Disconnect == <<Eff("publish", 0, AvailabilityTopic, 0, "offline")>>

\* f"{kind}_{i}" with every entity of a kind given the same object id
ObjectIdShared(kind, i) == kind

\* obj = f"dimmer_{i}", f"relay_{i}", f"input_{i}"
ObjectId(kind, i) == kind \o <<"_">> \o FormatInt(i)

\* f"{self.client_id}_{obj}"
UniqueId(obj) == ClientId \o <<"_">> \o obj

\* MQTTManager._disc_topic(component, object_id)
DiscTopic(component, object_id) ==
    DiscoveryPrefix \o <<"/">> \o component \o <<"/">> \o ClientId \o <<"_">> \o object_id
        \o <<"/", "c", "o", "n", "f", "i", "g">>

S_light  == <<"l", "i", "g", "h", "t">>
S_switch == <<"s", "w", "i", "t", "c", "h">>
S_binary_sensor == <<"b", "i", "n", "a", "r", "y", "_", "s", "e", "n", "s", "o", "r">>
S_KC868 == <<"K", "C", "8", "6", "8", " ">>

\* the fields of a discovery payload that differ between entities; the
\* others are the same literals in every call
DiscoveryPayload(name, obj, command_topic, state_topic) ==
    [name |-> name, unique_id |-> UniqueId(obj), command_topic |-> command_topic,
     state_topic |-> state_topic, availability_topic |-> AvailabilityTopic]

\* the three loops of publish_discovery(): one retained config message each
LightDiscovery(i) ==
    LET obj == ObjectId(<<"d", "i", "m", "m", "e", "r">>, i)
    IN  Eff("discovery", i, DiscTopic(S_light, obj),
            DiscoveryPayload(S_KC868 \o <<"L", "i", "g", "h", "t", " ">> \o FormatInt(i + 1),
                             obj, DimmerSet(FormatInt(i)), DimmerStateTopic(i)),
            "light")
SwitchDiscovery(i) ==
    LET obj == ObjectId(<<"r", "e", "l", "a", "y">>, i)
    IN  Eff("discovery", i, DiscTopic(S_switch, obj),
            DiscoveryPayload(S_KC868 \o S_Relay \o <<" ">> \o FormatInt(i),
                             obj, RelaySet(FormatInt(i)), RelayStateTopic(i)),
            "switch")
BinarySensorDiscovery(i) ==
    LET obj == ObjectId(<<"i", "n", "p", "u", "t">>, i)
    IN  Eff("discovery", i, DiscTopic(S_binary_sensor, obj),
            DiscoveryPayload(S_KC868 \o <<"I", "n", "p", "u", "t", " ">> \o InputName(i),
                             obj, <<>>, InputStateTopic(i)),
            "binary_sensor")

\* MQTTManager.publish_discovery(): nothing while not connected
PublishDiscovery(is_connected) ==
    IF ~is_connected THEN <<>>
    ELSE [k \in 1..16 |-> LightDiscovery(k - 1)]
         \o [k \in 1..2 |-> SwitchDiscovery(k)]
         \o [k \in 1..16 |-> BinarySensorDiscovery(k)]

\* str.lower()
LowerChar(c) ==
    IF \E i \in 1..26 : UpperChars[i] = c
    THEN LowerChars[CHOOSE i \in 1..26 : UpperChars[i] = c]
    ELSE c
Lower(s) == [i \in 1..Len(s) |-> LowerChar(s[i])]

\* ujson.loads(msg) for the messages drawn below: a quoted string without
\* escapes, an integer, null, true, false, [] and {}; any other text raises
JsonLoads(msg) ==
    IF Len(msg) >= 2 /\ msg[1] = "\"" /\ msg[Len(msg)] = "\""
       /\ \A i \in 2..(Len(msg) - 1) : msg[i] \notin {"\"", "\\"}
    THEN [ok |-> TRUE, v |-> ScalarPayload(PyStrV(SubSeq(msg, 2, Len(msg) - 1)))]
    ELSE IF AllDigits(msg) \/ (Len(msg) > 1 /\ msg[1] = "-" /\ AllDigits(Tail(msg)))
    THEN [ok |-> TRUE, v |-> ScalarPayload(PyIntV(ParseInt(msg).n))]
    ELSE IF msg = <<"n", "u", "l", "l">>
    THEN [ok |-> TRUE, v |-> ScalarPayload(PyNone)]
    ELSE IF msg = <<"t", "r", "u", "e">>
    THEN [ok |-> TRUE, v |-> ScalarPayload(PyBoolV(TRUE))]
    ELSE IF msg = <<"f", "a", "l", "s", "e">>
    THEN [ok |-> TRUE, v |-> ScalarPayload(PyBoolV(FALSE))]
    ELSE IF msg = <<"[", "]">>
    THEN [ok |-> TRUE, v |-> ScalarPayload(PyList)]
    ELSE IF msg = <<"{", "}">>
    THEN [ok |-> TRUE, v |-> DictPayload(Absent, Absent)]
    ELSE [ok |-> FALSE, v |-> ScalarPayload(PyNone)]

\* data = ujson.loads(msg), or msg.decode() when that raises
Decode(msg) == IF JsonLoads(msg).ok THEN JsonLoads(msg).v ELSE ScalarPayload(PyStrV(msg))

\* the birth test comparing the payload as it came
IsBirthMessageCaseSensitive(topic, data) ==
    /\ topic = StatusTopic
    /\ ~data.isdict
    /\ data.v.t = "str"
    /\ data.v.s = S_online

\* topic == "homeassistant/status" and isinstance(data, str) and data.lower() == "online"
IsBirthMessage(topic, data) ==
    /\ topic = StatusTopic
    /\ ~data.isdict
    /\ data.v.t = "str"
    /\ Lower(data.v.s) = S_online

\* MQTTManager._on_message(topic, msg): the birth announcement republishes
\* discovery and returns, anything else goes to on_command
OnMessage(topic, msg, fault, t) ==
    /\ connected
    /\ IF IsBirthMessage(topic, Decode(msg))
       THEN /\ effects' = PublishDiscovery(connected)
            /\ discovery_seen' = effects'
            /\ req' = [kind |-> "birth", topic |-> topic, payload |-> Decode(msg),
                       fault |-> 0]
            /\ resp' = NoResponse("")
            /\ toggled' = NoToggle
            /\ UNCHANGED <<dimmer_levels, last_non_zero_levels, relay_states,
                           input_states, last_update, pca_valid, pca_regs, prev_inputs,
                           rc_states, relay_pins, threads, app_pc, hardware_manager,
                           input_scanner, mqtt, connected, tasks, trace>>
       ELSE OnMqttCommand(topic, Decode(msg), fault, t)

-----------------------------------------------------------------------------
(* HardwareManager.shutdown *)

\* PCA9685.all_off(): set_level(channel, 0) for channel in range(16); the
\* first HardwareError leaves the loop.  fault_channel is the channel whose
\* register write exhausts its retries, -1 when none does.
RECURSIVE AllOffFrom(_, _, _, _)
AllOffFrom(regs, valid, channel, fault_channel) ==
    IF channel > 15 THEN [err |-> "", regs |-> regs, log |-> <<>>]
    ELSE LET r == SetLevel(regs, valid, channel, 0, IF channel = fault_channel THEN 1 ELSE 0)
         IN  IF r.err # "" THEN r
             ELSE LET rest == AllOffFrom(r.regs, valid, channel + 1, fault_channel)
                  IN  [rest EXCEPT !.log = r.log \o @]
AllOff(regs, valid, fault_channel) == AllOffFrom(regs, valid, 0, fault_channel)

\* RelayController.all_off()
RelayAllOff(states, pins) ==
    LET r1 == SetRelay(states, pins, RelayName(1), FALSE)
        r2 == SetRelay(r1.states, r1.pins, RelayName(2), FALSE)
    IN  [states |-> r2.states, pins |-> r2.pins, log |-> r1.log \o r2.log]

\* shutdown() letting the HardwareError of all_off() out
HardwareShutdownRaises(regs, valid, states, pins, fault_channel) ==
    LET d == IF valid THEN AllOff(regs, valid, fault_channel)
             ELSE [err |-> "", regs |-> regs, log |-> <<>>]
        r == RelayAllOff(states, pins)
    IN  IF d.err # ""
        THEN [raised |-> TRUE, regs |-> d.regs, states |-> states, pins |-> pins,
              log |-> d.log]
        ELSE [raised |-> FALSE, regs |-> d.regs, states |-> r.states, pins |-> r.pins,
              log |-> d.log \o r.log]

\* HardwareManager.shutdown(): all_off() of the dimmers when the PCA9685 is
\* valid, then all_off() of the relays, in one try block whose except logs
HardwareShutdown(regs, valid, states, pins, fault_channel) ==
    LET d == IF valid THEN AllOff(regs, valid, fault_channel)
             ELSE [err |-> "", regs |-> regs, log |-> <<>>]
        r == RelayAllOff(states, pins)
    IN  IF d.err # ""
        THEN [raised |-> FALSE, regs |-> d.regs, states |-> states, pins |-> pins,
              log |-> d.log]
        ELSE [raised |-> FALSE, regs |-> d.regs, states |-> r.states, pins |-> r.pins,
              log |-> d.log \o r.log]

-----------------------------------------------------------------------------
(* KC868Application *)

\* _broadcast_state() publishing only the dimmers that are on
BroadcastStateSkipsOff(state, mqtt_attr, is_connected) ==
    IF mqtt_attr = "unset" \/ ~is_connected THEN <<>>
    ELSE LET dimmers == SelectSeq([k \in 1..16 |-> k - 1],
                                  LAMBDA i : PwmName(i) \in DOMAIN state.dimmers
                                             /\ state.dimmers[PwmName(i)] > 0)
             relays  == SelectSeq([k \in 1..2 |-> k],
                                  LAMBDA i : RelayName(i) \in DOMAIN state.relays)
             inputs  == SelectSeq([k \in 1..16 |-> k],
                                  LAMBDA i : InputName(i) \in DOMAIN state.inputs)
         IN  [k \in 1..Len(dimmers) |->
                PublishDimmerState(dimmers[k], state.dimmers[PwmName(dimmers[k])])]
             \o [k \in 1..Len(relays) |->
                PublishRelayState(relays[k], state.relays[RelayName(relays[k])])]
             \o [k \in 1..Len(inputs) |->
                PublishInputState(inputs[k], state.inputs[InputName(inputs[k])])]

\* KC868Application._broadcast_state() on the snapshot state = get_state().
\* While self.mqtt does not exist the test raises AttributeError, which the
\* except logs; dict.get() gives None for a missing key and nothing is
\* published for it.
BroadcastState(state, mqtt_attr, is_connected) ==
    IF mqtt_attr = "unset" \/ ~is_connected THEN <<>>
    ELSE LET dimmers == SelectSeq([k \in 1..16 |-> k - 1],
                                  LAMBDA i : PwmName(i) \in DOMAIN state.dimmers)
             relays  == SelectSeq([k \in 1..2 |-> k],
                                  LAMBDA i : RelayName(i) \in DOMAIN state.relays)
             inputs  == SelectSeq([k \in 1..16 |-> k],
                                  LAMBDA i : InputName(i) \in DOMAIN state.inputs)
         IN  [k \in 1..Len(dimmers) |->
                PublishDimmerState(dimmers[k], state.dimmers[PwmName(dimmers[k])])]
             \o [k \in 1..Len(relays) |->
                PublishRelayState(relays[k], state.relays[RelayName(relays[k])])]
             \o [k \in 1..Len(inputs) |->
                PublishInputState(inputs[k], state.inputs[InputName(inputs[k])])]

\* one iteration of _periodic_tasks(): the broadcast, then discovery when the
\* 60 s since the last one have passed (due)
PeriodicTick(due) ==
    /\ app_pc = "running"
    /\ tasks
    /\ LET discovery == IF due /\ mqtt = "set" THEN PublishDiscovery(connected) ELSE <<>>
       IN  /\ effects' = BroadcastState(GetState(DeviceState), mqtt, connected) \o discovery
           /\ discovery_seen' = IF discovery # <<>> THEN discovery ELSE discovery_seen
    /\ req' = [kind |-> "tick", due |-> due]
    /\ resp' = NoResponse("")
    /\ toggled' = NoToggle
    /\ UNCHANGED <<dimmer_levels, last_non_zero_levels, relay_states, input_states,
                   last_update, pca_valid, pca_regs, prev_inputs, rc_states, relay_pins,
                   threads, app_pc, hardware_manager, input_scanner, mqtt, connected,
                   tasks, trace>>

\* what initialize() leaves behind
Initialized(ok, hw, scanner, mqtt_attr, is_connected, steps, log) ==
    [ok |-> ok, hardware_manager |-> hw, input_scanner |-> scanner, mqtt |-> mqtt_attr,
     connected |-> is_connected, trace |-> steps, log |-> log]

\* initialize() going on without a network connection
InitializeIgnoresNetwork(hardware_ok, network_ok, mode) ==
    IF ~hardware_ok
    THEN Initialized(FALSE, FALSE, FALSE, "unset", FALSE, <<"hardware_init">>, <<>>)
    ELSE LET c == Connect(mode)
             attempt == IF mode = "disabled" THEN <<>> ELSE <<"mqtt_connect">>
             up == mode # "disabled" /\ c.raised = ""
         IN  Initialized(TRUE, TRUE, TRUE, "set", up,
                         <<"hardware_init", "network_check", "wiring">> \o attempt
                            \o (IF up THEN <<"discovery">> ELSE <<>>),
                         IF up THEN c.log \o PublishDiscovery(TRUE) ELSE <<>>)

\* initialize() failing when the transport cannot be brought up
InitializeMqttRequired(hardware_ok, network_ok, mode) ==
    IF ~hardware_ok
    THEN Initialized(FALSE, FALSE, FALSE, "unset", FALSE, <<"hardware_init">>, <<>>)
    ELSE IF ~network_ok
    THEN Initialized(FALSE, TRUE, FALSE, "unset", FALSE,
                     <<"hardware_init", "network_check">>, <<>>)
    ELSE LET c == Connect(mode)
             attempt == IF mode = "disabled" THEN <<>> ELSE <<"mqtt_connect">>
             up == mode # "disabled" /\ c.raised = ""
         IN  Initialized(up, TRUE, TRUE, "set", up,
                         <<"hardware_init", "network_check", "wiring">> \o attempt
                            \o (IF up THEN <<"discovery">> ELSE <<>>),
                         IF up THEN c.log \o PublishDiscovery(TRUE) ELSE <<>>)

\* KC868Application.initialize(): get_hardware_manager() raises HardwareError
\* when the bus or a device cannot be set up; without a network connection
\* ApplicationError is raised; then the command processor and the scanner
\* are constructed; then the MQTT manager is fetched and, when enabled,
\* connected and discovery published, with every exception of that part
\* caught.  The steps taken are listed in program order.
Initialize(hardware_ok, network_ok, mode) ==
    IF ~hardware_ok
    THEN Initialized(FALSE, FALSE, FALSE, "unset", FALSE, <<"hardware_init">>, <<>>)
    ELSE IF ~network_ok
    THEN Initialized(FALSE, TRUE, FALSE, "unset", FALSE,
                     <<"hardware_init", "network_check">>, <<>>)
    ELSE LET c == Connect(mode)
             attempt == IF mode = "disabled" THEN <<>> ELSE <<"mqtt_connect">>
             up == mode # "disabled" /\ c.raised = ""
         IN  Initialized(TRUE, TRUE, TRUE, "set", up,
                         <<"hardware_init", "network_check", "wiring">> \o attempt
                            \o (IF up THEN <<"discovery">> ELSE <<>>),
                         IF up THEN c.log \o PublishDiscovery(TRUE) ELSE <<>>)

\* KC868Application.run() up to its loop: initialize(), and when that
\* succeeded running = True, input_scanner.start(), the two tasks created and
\* the loop entered; when it failed ApplicationError is raised and caught,
\* and only the finally block is left
Startup(hardware_ok, network_ok, mode) ==
    /\ app_pc = "new"
    /\ \E i \in {Initialize(hardware_ok, network_ok, mode)} :
         /\ hardware_manager' = i.hardware_manager
         /\ input_scanner' = i.input_scanner
         /\ mqtt' = i.mqtt
         /\ connected' = i.connected
         /\ effects' = i.log
         /\ discovery_seen' = IF i.connected THEN PublishDiscovery(TRUE) ELSE discovery_seen
         /\ IF i.ok
            THEN /\ running' = TRUE
                 /\ scan_pc' = "while"
                 /\ tasks' = TRUE
                 /\ app_pc' = "running"
                 /\ trace' = trace \o i.trace \o <<"scanner_start", "tasks", "run_loop">>
            ELSE /\ app_pc' = "failed"
                 /\ trace' = trace \o i.trace
                 /\ UNCHANGED <<running, scan_pc, tasks>>
    /\ req' = [kind |-> "startup", hardware_ok |-> hardware_ok, network_ok |-> network_ok,
               mode |-> mode]
    /\ resp' = NoResponse("")
    /\ toggled' = NoToggle
    /\ UNCHANGED <<dimmer_levels, last_non_zero_levels, relay_states, input_states,
                   last_update, pca_valid, pca_regs, prev_inputs, rc_states, relay_pins,
                   current_inputs, stop_returned, bus, main_pc, locking>>

\* the loop of run() is left by KeyboardInterrupt or another exception
Interrupt ==
    /\ app_pc = "running"
    /\ app_pc' = "interrupted"
    /\ UNCHANGED <<dimmer_levels, last_non_zero_levels, relay_states, input_states,
                   last_update, pca_valid, pca_regs, prev_inputs, rc_states, relay_pins,
                   handler, threads, hardware_manager, input_scanner, mqtt, connected,
                   tasks, trace, discovery_seen>>

\* KC868Application.shutdown(), called in the finally block of run() and once
\* more in the finally block of main().  The scanner is stopped and the
\* hardware shut down when they exist; an exception of that part, and the
\* AttributeError of self.mqtt while the attribute does not exist, end in the
\* except of shutdown(), which logs "Shutdown error"; while connected the
\* transport is disconnected.
Shutdown(fault_channel) ==
    /\ app_pc \in {"failed", "interrupted", "down"}
    /\ \E hw \in {IF hardware_manager
                  THEN HardwareShutdown(pca_regs, pca_valid, rc_states, relay_pins,
                                        fault_channel)
                  ELSE [raised |-> FALSE, regs |-> pca_regs, states |-> rc_states,
                        pins |-> relay_pins, log |-> <<>>]} :
         LET disconnects == ~hw.raised /\ mqtt = "set" /\ connected
             error == hw.raised \/ mqtt = "unset"
         IN  /\ pca_regs' = hw.regs
             /\ rc_states' = hw.states
             /\ relay_pins' = hw.pins
             /\ connected' = IF disconnects THEN FALSE ELSE connected
             /\ effects' = hw.log \o (IF disconnects THEN Disconnect ELSE <<>>)
             /\ resp' = [kind |-> "none", status |-> IF error THEN "Shutdown error" ELSE "",
                         message |-> "", snap |-> <<>>]
    /\ running' = IF input_scanner THEN FALSE ELSE running
    /\ stop_returned' = IF input_scanner THEN TRUE ELSE stop_returned
    /\ app_pc' = IF app_pc = "down" THEN "exit" ELSE "down"
    /\ trace' = Append(trace, "shutdown")
    /\ req' = [kind |-> "shutdown", fault_channel |-> fault_channel, was |-> app_pc,
               was_connected |-> connected]
    /\ toggled' = NoToggle
    /\ UNCHANGED <<dimmer_levels, last_non_zero_levels, relay_states, input_states,
                   last_update, pca_valid, prev_inputs, scan_pc, current_inputs, bus,
                   main_pc, locking, hardware_manager, input_scanner, mqtt, tasks,
                   discovery_seen>>

\* a call of MQTTManager.publish_dimmer_state, as _broadcast_state and the
\* command callback make it
PublishDimmerCall(channel_index, percent) ==
    /\ Idle
    /\ connected
    /\ effects' = <<PublishDimmerState(channel_index, percent)>>
    /\ req' = [kind |-> "publish_dimmer", channel_index |-> channel_index,
               percent |-> percent]
    /\ resp' = NoResponse("")
    /\ UNCHANGED <<dimmer_levels, last_non_zero_levels, relay_states, input_states,
                   last_update, pca_valid, life, pca_regs, prev_inputs, rc_states,
                   relay_pins, toggled, threads>>

\* the levels DeviceState can hold, on the first, a middle and the last channel
PublishLevels == 0..100
PublishChannels == {0, 7, 15}
PublishDimmerStep ==
    \E channel_index \in PublishChannels, percent \in PublishLevels :
        PublishDimmerCall(channel_index, percent)

\* the state after KC868Application() has been constructed in main()
InitBoot ==
    /\ dimmer_levels = [nm \in {PwmName(i) : i \in 0..15} |-> 0]
    /\ last_non_zero_levels = [nm \in {PwmName(i) : i \in 0..15} |-> 100]
    /\ relay_states = [nm \in {RelayName(1), RelayName(2)} |-> FALSE]
    /\ input_states = EmptyDict
    /\ last_update = 0
    /\ pca_valid \in BOOLEAN
    /\ pca_regs = [c \in 0..15 |-> <<0, 0, 0, 0>>]
    /\ prev_inputs = EmptyDict
    /\ rc_states = [nm \in {RelayName(1), RelayName(2)} |-> FALSE]
    /\ relay_pins = [p \in 1..2 |-> 0]
    /\ req = [kind |-> "idle"]
    /\ resp = NoResponse("")
    /\ effects = <<>>
    /\ toggled = NoToggle
    /\ running = FALSE
    /\ scan_pc = "unstarted"
    /\ current_inputs = EmptyDict
    /\ stop_returned = FALSE
    /\ bus = {}
    /\ main_pc = 0
    /\ lock = "free"
    /\ sm_pc = [t \in Threads |-> "idle"]
    /\ sm_arg = [t \in Threads |-> NoCall]
    /\ reader_snap = EmptySnapshot
    /\ passed = {}
    /\ app_pc = "new"
    /\ hardware_manager = FALSE
    /\ input_scanner = FALSE
    /\ mqtt = "unset"
    /\ connected = FALSE
    /\ tasks = FALSE
    /\ trace = <<>>
    /\ discovery_seen = <<>>

\* the messages the broker delivers: commands for dimmer 3 and relay 1, and
\* the status topic with the birth announcement in four spellings and with
\* other payloads
S_ONLINE == Upper(S_online)
LifeCommands ==
    {<<DimmerSet(<<"3">>), <<"4", "2">>>>, <<DimmerSet(<<"3">>), S_OFF>>,
     <<RelaySet(<<"1">>), S_ON>>}
StatusMessages ==
    {<<StatusTopic, m>> :
        m \in {S_online, S_ONLINE, <<"O", "n", "l", "i", "n", "e">>,
               <<"\"">> \o S_online \o <<"\"">>,
               <<"o", "f", "f", "l", "i", "n", "e">>, <<"1">>, <<"{", "}">>, <<>>}}
    \cup {<<BaseTopic \o <<"/", "s", "t", "a", "t", "u", "s">>, S_online>>}

\* the channel whose off-write fails during a shutdown: none, the first, one
\* in the middle, the last
FaultChannels == {-1, 0, 5, 15}

StartupStep ==
    /\ Idle
    /\ \E hardware_ok \in BOOLEAN, network_ok \in BOOLEAN, mode \in MqttModes :
         Startup(hardware_ok, network_ok, mode)
InterruptStep == Idle /\ Interrupt
ShutdownStep ==
    /\ Idle
    /\ \E fault_channel \in (IF pca_valid /\ hardware_manager THEN FaultChannels ELSE {-1}) :
         Shutdown(fault_channel)
TickStep == Idle /\ \E due \in BOOLEAN : PeriodicTick(due)
CommandMessageStep ==
    /\ Idle
    /\ app_pc = "running"
    /\ \E m \in LifeCommands, t \in Ticks : OnMessage(m[1], m[2], 0, t)
StatusMessageStep ==
    /\ Idle
    /\ app_pc = "running"
    /\ \E m \in StatusMessages : OnMessage(m[1], m[2], 0, last_update)
LifeScanStep ==
    /\ Idle
    /\ \E d1 \in ThreadBytes1, d2 \in ThreadBytes2, t \in Ticks : ScanInputs(d1, d2, t)

\* the application from construction to exit
NextLife ==
    \/ StartupStep
    \/ TickStep
    \/ CommandMessageStep
    \/ StatusMessageStep
    \/ LifeScanStep
    \/ InterruptStep
    \/ ShutdownStep
    \/ Return

SpecLife == InitBoot /\ [][NextLife]_vars

-----------------------------------------------------------------------------
(* The specifications *)

\* the direct command interface
Next ==
    \/ DirectDimmerStep
    \/ DirectRelayStep
    \/ DirectOtherStep
    \/ ScanStep
    \/ Return

Spec == Init /\ [][Next]_vars

\* the MQTT command router
NextMqtt ==
    \/ MqttDimmerStep
    \/ MqttRelayStep
    \/ MqttStrayStep
    \/ ScanStep
    \/ Return

SpecMqtt == Init /\ [][NextMqtt]_vars

\* the input scanner alone, one loop iteration at a time
NextScan == ScanAnyStep \/ Return

SpecScan == Init /\ [][NextScan]_vars

\* the set_dimmer commands of the direct interface alone
NextDimmer == DirectDimmerStep \/ Return

SpecDimmer == Init /\ [][NextDimmer]_vars

\* commands whose channel names are other spellings of dimmer 5, dimmer 15
\* and relay 1, next to the canonical PWM5 and Relay1
AliasCommands ==
    {Command("set_dimmer", PyStrV(S_PWM \o c), PyIntV(v)) :
        c \in {<<"0", "5">>, <<"5">>, <<"0", "1", "5">>}, v \in {0, 42}}
    \cup {Command("toggle_relay", PyStrV(S_Relay \o c), Absent) : c \in {<<"1">>, <<"0", "1">>}}
AliasStep ==
    /\ Idle
    /\ \E command \in AliasCommands, t \in Ticks : ProcessCommand(command, 0, t)

\* the direct interface with those channel names
NextAlias == AliasStep \/ Return

SpecAlias == Init /\ [][NextAlias]_vars

\* the dimmer state publisher alone
NextPublish == PublishDimmerStep \/ Return

SpecPublish == Init /\ [][NextPublish]_vars

\* the PWM driver alone
NextDuty == SetLevelStep \/ Return

SpecDuty == Init /\ [][NextDuty]_vars

-----------------------------------------------------------------------------
(* Vocabulary of the properties *)

PWM3   == PwmName(3)
PWM15  == PwmName(15)
Relay1 == RelayName(1)
Relay2 == RelayName(2)

\* the canonical dimmer names PWM0..PWM15 and the channel each one names
CanonicalDimmers == {PwmName(c) : c \in 0..15}
ChannelOf(nm) == CHOOSE c \in 0..15 : PwmName(c) = nm

\* StateManager.get_state() of the current state
Snapshot == GetState(DeviceState)

\* the effects of the last step that are writes to the outputs
HardwareWrites(log) == {i \in DOMAIN log : log[i].op \in {"i2c_write", "relay_pin"}}
EffectsOf(log, op) == {i \in DOMAIN log : log[i].op = op}

\* the last step was process_command({type: set_dimmer, channel: "PWM<c>", value: <int>})
\* with c in 0..15
IsSetDimmer(r) ==
    /\ r.kind = "direct"
    /\ r.command.type = "set_dimmer"
    /\ r.command.channel.t = "str"
    /\ r.command.channel.s \in CanonicalDimmers
    /\ r.command.value.t = "int"

-----------------------------------------------------------------------------
(* C1 *)

-----------------------------------------------------------------------------
(* C2 *)

\* the last step was a set_level(7, level) whose register writes all went through
IsSetLevel(r) == r.kind = "set_level" /\ r.fault = 0 /\ pca_valid

\* d is level * 4095 / 100 rounded to the nearest integer (either way on a tie)
IsNearest(d, level) ==
    /\ 100 * d - level * 4095 <= 50
    /\ level * 4095 - 100 * d <= 50

-----------------------------------------------------------------------------
(* C3 *)

\* C3: a set_dimmer on a valid channel with an integer level outside 0..100
\* returns an error result and leaves DeviceState (dimmer levels,
\* last-non-zero levels, relays, inputs, timestamp) exactly as it was; since
\* this holds of every such call, it holds of any number of repetitions.
C3_RejectedLevelKeepsState ==
    [][(Idle /\ IsSetDimmer(req') /\ req'.command.value.n \notin 0..100)
        => /\ resp'.status = "error"
           /\ DeviceState' = DeviceState]_vars

\* a set_dimmer of PWM3 to 101 was rejected while PWM3 holds 42
C3_Witness ==
    /\ IsSetDimmer(req)
    /\ req.command.channel.s = PWM3
    /\ req.command.value.n = 101
    /\ resp.status = "error"
    /\ dimmer_levels[PWM3] = 42
    /\ last_non_zero_levels[PWM3] = 42

-----------------------------------------------------------------------------
(* C4 *)

\* the direct command names a dimmer channel outside 0..15, a level outside
\* 0..100 on a valid channel, or a relay other than Relay1 / Relay2
IsInvalidArgument(r) ==
    /\ r.kind = "direct"
    /\ r.command.channel.t = "str"
    /\ \/ /\ r.command.type = "set_dimmer"
          /\ r.command.channel.s = PwmName(16)
       \/ /\ IsSetDimmer(r)
          /\ r.command.value.n \notin 0..100
       \/ /\ r.command.type = "toggle_relay"
          /\ r.command.channel.s \notin {Relay1, Relay2}

\* C4 as stated: a direct command with an out-of-range channel, an
\* out-of-range level or an invalid relay id is rejected with an error result
\* and performs no PWM register write and no relay write.
C4_AsStated ==
    IsInvalidArgument(req) => (resp.status = "error" /\ HardwareWrites(effects) = {})

-----------------------------------------------------------------------------
(* Vocabulary of the MQTT properties *)

\* <base>/dimmer/<c>/set for c in 0..15, and the channel such a topic names
DimmerCommandTopics == {DimmerSet(FormatInt(c)) : c \in 0..15}
TopicChannel(topic) == CHOOSE c \in 0..15 : DimmerSet(FormatInt(c)) = topic

\* <base>/relay/<i>/set for i in 1..2, and the relay such a topic names
RelayCommandTopics == {RelaySet(FormatInt(i)) : i \in 1..2}
TopicRelay(topic) == CHOOSE i \in 1..2 : RelaySet(FormatInt(i)) = topic

IsDimmerMessage(r) == r.kind = "mqtt" /\ r.topic \in DimmerCommandTopics
IsRelayMessage(r)  == r.kind = "mqtt" /\ r.topic \in RelayCommandTopics

\* clamp(n, 0, 100)
Clamp100(n) == IF n < 0 THEN 0 ELSE IF n > 100 THEN 100 ELSE n

\* the spellings of ON and OFF
OnTexts  == {<<"O", "N">>, <<"o", "n">>, <<"O", "n">>, <<"o", "N">>}
OffTexts == {<<"O", "F", "F">>, <<"o", "f", "f">>, <<"O", "f", "f">>, <<"o", "F", "F">>}

\* the decimal texts used as payloads, with the number each one denotes
NumberTexts == {<<<<"4", "2">>, 42>>, <<<<"1", "5", "0">>, 150>>, <<<<"-", "5">>, -5>>}

\* the first effect of the last step is set_level(c, level)
FirstIsSetLevel(log, c, level) ==
    /\ Len(log) >= 1
    /\ log[1].op = "set_level"
    /\ log[1].ch = c
    /\ log[1].val = level

-----------------------------------------------------------------------------
(* C5 *)

\* the payloads that carry a plain number, with that number
NumberPayloads ==
    {<<ScalarPayload(PyStrV(x[1])), x[2]>> : x \in NumberTexts}
    \cup {<<ScalarPayload(PyIntV(n)), n>> : n \in {-5, 42, 150}}
    \cup {<<DictPayload(PyIntV(n), Absent), n>> : n \in {-5, 42, 150}}

\* C5: in an MQTT dimmer command on channel idx in 0..15 the value passed to
\* set_level, the value stored by update_dimmer (and then held by DeviceState)
\* and the value published are one and the same value in 0..100, for channel
\* idx; for a payload that is the number n that value is clamp(n, 0, 100),
\* and when no register write fails all three effects take place.
C5_ClampedBeforeUse ==
    IsDimmerMessage(req) =>
        LET c == TopicChannel(req.topic)
            used == {i \in DOMAIN effects :
                        effects[i].op \in {"set_level", "update_dimmer", "publish"}}
        IN  /\ \A i \in used :
                  /\ effects[i].val \in 0..100
                  /\ \A j \in used : effects[j].val = effects[i].val
                  /\ effects[i].op = "set_level" => effects[i].ch = c
                  /\ effects[i].op = "update_dimmer" =>
                        /\ effects[i].key = PwmName(c)
                        /\ dimmer_levels[PwmName(c)] = effects[i].val
                  /\ effects[i].op = "publish" =>
                        /\ effects[i].key = DimmerStateTopic(c)
                        /\ EffectsOf(effects, "update_dimmer") # {}
            /\ \A pn \in NumberPayloads :
                  req.payload = pn[1] =>
                     /\ FirstIsSetLevel(effects, c, Clamp100(pn[2]))
                     /\ req.fault = 0 =>
                           /\ EffectsOf(effects, "update_dimmer") # {}
                           /\ EffectsOf(effects, "publish") # {}
            /\ OffCount(pca_regs, c) \in 0..4095

\* the payload 150 on dimmer 3 went to the hardware, the state and the
\* publisher as 100
C5_Witness ==
    /\ IsDimmerMessage(req)
    /\ TopicChannel(req.topic) = 3
    /\ req.payload = ScalarPayload(PyIntV(150))
    /\ FirstIsSetLevel(effects, 3, 100)
    /\ dimmer_levels[PWM3] = 100
    /\ \E i \in EffectsOf(effects, "publish") : effects[i].val = 100

-----------------------------------------------------------------------------
(* C6 *)

IsOnText(v)  == v.t = "str" /\ v.s \in OnTexts
IsOffText(v) == v.t = "str" /\ v.s \in OffTexts

\* C6 as stated: for an object payload with a brightness the resolved level
\* is that brightness, clamped, whatever the state entry says; without a
\* brightness, state OFF gives 0 and state ON gives 100.
C6_AsStated ==
    (IsDimmerMessage(req) /\ req.payload.isdict) =>
        LET c == TopicChannel(req.topic)
            p == req.payload
        IN  /\ p.b.t = "int" => FirstIsSetLevel(effects, c, Clamp100(p.b.n))
            /\ (p.b.t = "absent" /\ IsOffText(p.st)) => FirstIsSetLevel(effects, c, 0)
            /\ (p.b.t = "absent" /\ IsOnText(p.st)) => FirstIsSetLevel(effects, c, 100)

\* C6 amended: for an object payload with an integer brightness the resolved
\* level is 0 when the state entry is OFF (any case) and otherwise that
\* brightness, clamped; without a brightness, state OFF gives 0 and state ON
\* gives 100.
C6_OffOverridesBrightness ==
    (IsDimmerMessage(req) /\ req.payload.isdict) =>
        LET c == TopicChannel(req.topic)
            p == req.payload
        IN  /\ (p.b.t = "int" /\ IsOffText(p.st)) => FirstIsSetLevel(effects, c, 0)
            /\ (p.b.t = "int" /\ ~IsOffText(p.st)) =>
                  FirstIsSetLevel(effects, c, Clamp100(p.b.n))
            /\ (p.b.t = "absent" /\ IsOffText(p.st)) => FirstIsSetLevel(effects, c, 0)
            /\ (p.b.t = "absent" /\ IsOnText(p.st)) => FirstIsSetLevel(effects, c, 100)

\* {"brightness": 42, "state": "off"} on dimmer 3 was applied as level 0
C6_Witness ==
    /\ IsDimmerMessage(req)
    /\ req.payload = DictPayload(PyIntV(42), PyStrV(<<"o", "f", "f">>))
    /\ FirstIsSetLevel(effects, 3, 0)
    /\ EffectsOf(effects, "update_dimmer") # {}
    /\ dimmer_levels[PWM3] = 0
    /\ last_non_zero_levels[PWM3] = 42

-----------------------------------------------------------------------------
(* C7 *)

\* the bare string payloads the claim names, with the level each one asks for
StringLevels ==
    {<<ScalarPayload(PyStrV(x)), 100>> : x \in OnTexts}
    \cup {<<ScalarPayload(PyStrV(x)), 0>> : x \in OffTexts}
    \cup {<<ScalarPayload(PyStrV(x[1])), Clamp100(x[2])>> : x \in NumberTexts}

\* level is what channel c holds after the step, in DeviceState and in the
\* PWM registers, and every other channel holds what it held before
AppliedTo(c, level) ==
    /\ dimmer_levels' = [dimmer_levels EXCEPT ![PwmName(c)] = level]
    /\ pca_valid => pca_regs' = [pca_regs EXCEPT ![c] =
                        <<0, 0, ((level * 4095) \div 100) % 256, ((level * 4095) \div 100) \div 256>>]
    /\ ~pca_valid => pca_regs' = pca_regs
    /\ relay_states' = relay_states

-----------------------------------------------------------------------------
(* C8 *)

\* payloads that resolve to no level: a non-numeric string other than ON /
\* OFF, an object with neither a brightness nor a state of ON or OFF, null,
\* a list
UnresolvablePayloads ==
    {ScalarPayload(PyStrV(<<"a", "b", "c">>)), ScalarPayload(PyNone), ScalarPayload(PyList),
     DictPayload(Absent, Absent), DictPayload(Absent, PyStrV(<<"a", "b", "c">>))}

\* C8 as stated (for the commands whose register writes all succeed): an
\* unresolvable payload on dimmer idx applies level 0 to the hardware and to
\* DeviceState for that channel.
C8_AsStated ==
    (IsDimmerMessage(req) /\ req.payload \in UnresolvablePayloads /\ req.fault = 0)
        => /\ FirstIsSetLevel(effects, TopicChannel(req.topic), 0)
           /\ EffectsOf(effects, "update_dimmer") # {}
           /\ dimmer_levels[PwmName(TopicChannel(req.topic))] = 0

-----------------------------------------------------------------------------
(* C9 *)

PayloadIsOn(p)  == IF p.isdict THEN IsOnText(p.st) ELSE IsOnText(p.v)
PayloadIsOff(p) == IF p.isdict THEN IsOffText(p.st) ELSE IsOffText(p.v)
\* a str payload, or an object with a state entry
PayloadHasText(p) == IF p.isdict THEN p.st.t # "absent" ELSE p.v.t = "str"

\* relay i holds state on in DeviceState, in the controller and on its pin
RelayIs(i, on) ==
    /\ relay_states'[RelayName(i)] = on
    /\ rc_states'[RelayName(i)] = on
    /\ relay_pins'[i] = BoolInt(on)

\* C9 as stated: on relay idx in {1, 2}, ON (any case) as string payload or
\* state entry sets the relay true, OFF sets it false, and a payload in which
\* neither ON nor OFF is present sets it to the negation of what DeviceState
\* holds; hardware and DeviceState end with the same value.
C9_AsStated ==
    [][(Idle /\ IsRelayMessage(req'))
        => LET i == TopicRelay(req'.topic)
               p == req'.payload
           IN  /\ PayloadIsOn(p) => RelayIs(i, TRUE)
               /\ PayloadIsOff(p) => RelayIs(i, FALSE)
               /\ (~PayloadIsOn(p) /\ ~PayloadIsOff(p)) =>
                     RelayIs(i, ~relay_states[RelayName(i)])]_vars

\* C9 amended: ON (any case) as string payload or state entry sets the relay
\* true; every other string payload or state entry (OFF or any other text)
\* sets it false; a payload that is neither a string nor an object with a
\* state entry sets it to the negation of what DeviceState holds; hardware
\* and DeviceState end with the same value.
C9_RelayResolution ==
    [][(Idle /\ IsRelayMessage(req'))
        => LET i == TopicRelay(req'.topic)
               p == req'.payload
           IN  /\ PayloadIsOn(p) => RelayIs(i, TRUE)
               /\ (PayloadHasText(p) /\ ~PayloadIsOn(p)) => RelayIs(i, FALSE)
               /\ ~PayloadHasText(p) => RelayIs(i, ~relay_states[RelayName(i)])]_vars

\* relay 1 is on after the text "abc" switched relay 2 off: a text that is
\* neither ON nor OFF did not toggle relay 2 back on
C9_Witness ==
    /\ IsRelayMessage(req)
    /\ TopicRelay(req.topic) = 2
    /\ req.payload = ScalarPayload(PyStrV(<<"a", "b", "c">>))
    /\ ~relay_states[Relay2]
    /\ relay_pins[2] = 0
    /\ relay_states[Relay1]
    /\ relay_pins[1] = 1
    /\ \E i \in EffectsOf(effects, "publish") : effects[i].aux = "OFF"

-----------------------------------------------------------------------------
(* C10 *)

\* the topic has exactly the shape <base>/dimmer/<idx>/set with an integer
\* idx in 0..15 or <base>/relay/<idx>/set with an integer idx in 1..2
IsCommandTopic(topic) ==
    LET segs == Split(topic, "/")
    IN  /\ Len(segs) = 4
        /\ segs[1] = BaseTopic
        /\ segs[4] = <<"s", "e", "t">>
        /\ ParseInt(segs[3]).ok
        /\ \/ segs[2] = <<"d", "i", "m", "m", "e", "r">> /\ ParseInt(segs[3]).n \in 0..15
           \/ segs[2] = <<"r", "e", "l", "a", "y">> /\ ParseInt(segs[3]).n \in 1..2

\* C10 as stated: an MQTT message whose topic is no dimmer or relay set
\* topic, or whose idx is no integer or out of range, is a no-op: no hardware
\* write, no DeviceState change, no publish, and the handler returns normally.
C10_AsStated ==
    [][(Idle /\ req'.kind = "mqtt" /\ ~IsCommandTopic(req'.topic))
        => /\ effects' = <<>>
           /\ DeviceState' = DeviceState
           /\ pca_regs' = pca_regs
           /\ relay_pins' = relay_pins
           /\ rc_states' = rc_states
           /\ resp'.kind = "none"]_vars

-----------------------------------------------------------------------------
(* C11 *)

\* the positions in a log of the calls into the output drivers
DriverCalls(log) == {i \in DOMAIN log : log[i].op \in {"set_level", "i2c_write", "relay_pin"}}

\* what a publish effect announces is what DeviceState and the output hold
PublishedIsHeld(e) ==
    IF e.key \in {DimmerStateTopic(c) : c \in 0..15}
    THEN /\ dimmer_levels[PwmName(e.ch)] = e.val
         /\ pca_valid => OffCount(pca_regs, e.ch) = (e.val * 4095) \div 100
    ELSE /\ relay_states[RelayName(e.ch)] = (e.val = 1)
         /\ rc_states[RelayName(e.ch)] = (e.val = 1)
         /\ relay_pins[e.ch] = e.val

\* C11: in every MQTT command the calls into the output driver come first,
\* then the one DeviceState update, then the one publish; a publish is never
\* emitted without the driver call and the update before it, and when it is
\* emitted DeviceState and the output already hold the published value.
C11_HardwareStatePublishOrder ==
    req.kind = "mqtt" =>
        LET hw == DriverCalls(effects)
            st == EffectsOf(effects, "update_dimmer") \cup EffectsOf(effects, "update_relay")
            pb == EffectsOf(effects, "publish")
        IN  /\ Cardinality(st) <= 1
            /\ Cardinality(pb) <= 1
            /\ \A i \in hw, j \in st : i < j
            /\ \A j \in st, k \in pb : j < k
            /\ \A i \in hw, k \in pb : i < k
            /\ st # {} => hw # {}
            /\ pb # {} => st # {}
            /\ \A k \in pb : PublishedIsHeld(effects[k])

\* a dimmer command on channel 3 has written the four registers, updated
\* DeviceState and published, in that order
C11_Witness ==
    /\ IsDimmerMessage(req)
    /\ pca_valid
    /\ Len(effects) = 7
    /\ effects[1].op = "set_level"
    /\ \A i \in 2..5 : effects[i].op = "i2c_write"
    /\ effects[6].op = "update_dimmer"
    /\ effects[7].op = "publish"
    /\ effects[7].val = 42
    /\ dimmer_levels[PWM3] = 42
    /\ OffCount(pca_regs, 3) = 1719

-----------------------------------------------------------------------------
(* C12 *)

\* the last step was a command whose writes to an output all succeeded
HardwareMutated ==
    /\ req.kind \in {"direct", "mqtt"}
    /\ HardwareWrites(effects) # {}
    /\ resp.message # "HardwareError"

\* C12 as stated: a command, direct or MQTT, whose hardware mutation succeeds
\* also updates DeviceState and publishes the new state before it returns.
C12_AsStated ==
    HardwareMutated =>
        /\ EffectsOf(effects, "update_dimmer") \cup EffectsOf(effects, "update_relay") # {}
        /\ EffectsOf(effects, "publish") # {}

-----------------------------------------------------------------------------
(* C13 *)

\* r is process_command({type: toggle_relay, channel: nm})
IsToggle(r, nm) ==
    /\ r.kind = "direct"
    /\ r.command.type = "toggle_relay"
    /\ r.command.channel = PyStrV(nm)

\* the GPIO pin of a relay
PinOf(nm) == IF nm = Relay1 THEN 1 ELSE 2

\* C13: after every direct toggle_relay on r, DeviceState's entry for r
\* equals the hardware relay state (controller and pin); and when the direct
\* command before it was a toggle_relay on r too, the hardware relay state
\* and DeviceState's entry are back at what they were before that first toggle.
C13_ToggleTwiceRestores ==
    [][\A nm \in {Relay1, Relay2} :
          (Idle /\ IsToggle(req', nm)) =>
             /\ relay_states'[nm] = rc_states'[nm]
             /\ relay_pins'[PinOf(nm)] = BoolInt(rc_states'[nm])
             /\ toggled.name = nm =>
                   /\ relay_states'[nm] = toggled.state
                   /\ rc_states'[nm] = toggled.hw
                   /\ relay_pins'[PinOf(nm)] = toggled.pin]_vars

\* relay 1 was toggled twice in a row: on by the first toggle, off again by
\* the second
C13_Witness ==
    /\ IsToggle(req, Relay1)
    /\ toggled.name = Relay1
    /\ toggled.again
    /\ toggled.state
    /\ toggled.pin = 1
    /\ ~relay_states[Relay1]
    /\ ~rc_states[Relay1]
    /\ relay_pins[1] = 0

-----------------------------------------------------------------------------
(* C14 *)

\* C14 as stated: every call of the direct command interface returns a dict
\* with a status entry that is "success" or "error".
C14_AsStated ==
    req.kind = "direct" => (resp.kind = "dict" /\ resp.status \in {"success", "error"})

-----------------------------------------------------------------------------
(* C15 *)

\* a direct command with a missing channel, with a channel that is not
\* PWM<N>, N in 0..15 (set_dimmer) or not Relay1 / Relay2 (toggle_relay), or
\* of an unknown type
IsMalformed(command) ==
    \/ /\ command.type = "set_dimmer"
       /\ (command.channel.t # "str" \/ command.channel.s \notin CanonicalDimmers)
    \/ /\ command.type = "toggle_relay"
       /\ (command.channel.t # "str" \/ command.channel.s \notin {Relay1, Relay2})
    \/ command.type \notin {"set_dimmer", "toggle_relay", "get_state"}

\* C15 as stated: a malformed direct command returns a result with status
\* error, and neither the hardware nor DeviceState is changed.
C15_AsStated ==
    [][(Idle /\ req'.kind = "direct" /\ IsMalformed(req'.command))
        => /\ resp'.kind = "dict"
           /\ resp'.status = "error"
           /\ DeviceState' = DeviceState
           /\ pca_regs' = pca_regs
           /\ rc_states' = rc_states
           /\ relay_pins' = relay_pins]_vars

-----------------------------------------------------------------------------
(* C19 *)

\* the inputs for which the last scan emitted a change notification
Notified(log) == {log[i].key : i \in EffectsOf(log, "input_change")}

\* C19: a scan whose snapshot equals the preceding one emits no change
\* notification and leaves DeviceState's inputs alone; a scan whose snapshot
\* differs emits one notification for exactly the inputs of the new snapshot
\* whose value is not the one the preceding snapshot holds for them, and
\* afterwards DeviceState's inputs agree with the new snapshot on each of its
\* keys; either way the new snapshot is the preceding one of the next scan.
C19_InputDiffing ==
    [][(Idle /\ req'.kind = "scan")
        => LET current == GetInputStates(req'.d1, req'.d2)
               differing == {nm \in DOMAIN current :
                                nm \notin DOMAIN prev_inputs \/ prev_inputs[nm] # current[nm]}
           IN  /\ current = prev_inputs =>
                     /\ effects' = <<>>
                     /\ input_states' = input_states
               /\ current # prev_inputs =>
                     /\ Notified(effects') = differing
                     /\ Cardinality(EffectsOf(effects', "input_change")) = Cardinality(differing)
                     /\ \A i \in EffectsOf(effects', "input_change") :
                           effects'[i].val = BoolInt(current[effects'[i].key])
                     /\ \A nm \in DOMAIN current :
                           nm \in DOMAIN input_states' /\ input_states'[nm] = current[nm]
               /\ prev_inputs' = current]_vars

\* after a complete snapshot, the scan that read input X01 released was
\* notified for X01 alone, and DeviceState holds the sixteen inputs
C19_Witness ==
    /\ req.kind = "scan"
    /\ req.d1 = 255
    /\ req.d2 = 255
    /\ Len(effects) = 2
    /\ effects[1].op = "input_change"
    /\ effects[1].key = InputName(1)
    /\ effects[1].val = 0
    /\ effects[2].op = "update_inputs"
    /\ Cardinality(DOMAIN input_states) = 16
    /\ ~input_states[InputName(1)]
    /\ input_states[InputName(16)] = FALSE

-----------------------------------------------------------------------------
(* C20 *)

\* C20 as stated: when an expander read of a scan fails while the scanner
\* holds a complete snapshot, the scanner keeps that snapshot for the cycle
\* and goes on polling.
C20_AsStated ==
    [][(Idle /\ req'.kind = "scan" /\ Cardinality(DOMAIN prev_inputs) = 16
             /\ (req'.d1 = -1 \/ req'.d2 = -1))
        => /\ prev_inputs' = prev_inputs
           /\ running' /\ scan_pc' = "while"]_vars

-----------------------------------------------------------------------------
(* C17 *)

\* the scan thread starts a hardware input read in this step
ReadStarts == scan_pc \in {"read1", "read2"} /\ scan_pc' \in {"reading1", "reading2"}

\* C17 as stated: once stop() has returned the scan thread starts no
\* hardware input read.
C17_AsStated == [][stop_returned => ~ReadStarts]_vars

-----------------------------------------------------------------------------
(* C18 *)

\* C18 as stated: an input read of the scan thread and an output write of
\* the main thread are never in progress on the bus at the same time.
C18_AsStated == ~({"scanner", "main"} \subseteq bus)

-----------------------------------------------------------------------------
(* C16 *)

\* get_state() returns in this step
SnapshotReturned == sm_pc["reader"] = "release" /\ sm_pc'["reader"] = "idle"

\* C16: under every interleaving of update_inputs, update_dimmer,
\* update_relay and get_state calls, the dict a get_state() call returns is
\* the complete DeviceState (dimmers, relays, inputs, timestamp) of the
\* instant it returns, at which no mutator call is between its first and its
\* last write, and every dimmer value in it is 0 or a level passed to an
\* update_dimmer call for that channel that has returned.
C16_SnapshotNotTorn ==
    [][SnapshotReturned =>
          /\ reader_snap = GetState(DeviceState)
          /\ \A th \in {"scanner", "command"} : sm_pc[th] \in {"idle", "acquire"}
          /\ \A nm \in DOMAIN reader_snap.dimmers :
                \/ reader_snap.dimmers[nm] = 0
                \/ <<nm, reader_snap.dimmers[nm]>> \in passed]_vars

\* a complete snapshot with channel 3 at 42, relay 1 on and sixteen inputs is
\* about to be returned while the scan thread and the command path wait for
\* the lock
C16_Witness ==
    /\ sm_pc["reader"] = "release"
    /\ sm_pc["scanner"] = "acquire"
    /\ sm_pc["command"] = "acquire"
    /\ lock = "reader"
    /\ reader_snap.dimmers[PWM3] = 42
    /\ reader_snap.relays[Relay1]
    /\ Cardinality(DOMAIN reader_snap.inputs) = 16
    /\ reader_snap.timestamp = 1

-----------------------------------------------------------------------------
(* Vocabulary of the application's properties *)

\* the places of a step in the trace of startup and shutdown
Places(step) == {i \in DOMAIN trace : trace[i] = step}

\* the last step was run() reaching its loop or failing, with these inputs
IsStartup == req.kind = "startup"
IsShutdown == req.kind = "shutdown"
IsTick == req.kind = "tick"

\* the messages of the last step that publish_discovery() emitted
Emitted(log) == SelectSeq(log, LAMBDA e : e.op = "discovery")
\* the state messages and availability messages of the last step
Published(log) == SelectSeq(log, LAMBDA e : e.op = "publish")

\* the retained "offline" availability message
IsOffline(e) == e.op = "publish" /\ e.key = AvailabilityTopic /\ e.aux = "offline"

-----------------------------------------------------------------------------
(* C21 *)

\* the place of each startup step in the order the claim gives
StatedRank(step) ==
    CASE step = "hardware_init" -> 1
      [] step = "network_check" -> 2
      [] step = "wiring"        -> 3
      [] step = "scanner_start" -> 4
      [] step = "mqtt_connect"  -> 5
      [] step = "discovery"     -> 6
      [] step = "run_loop"      -> 7
      [] OTHER                  -> 0

\* C21 as stated: startup takes its steps in the order hardware init, network
\* check, command router wiring, scanner start, MQTT connect with discovery
\* publish, run loop; the scanner is started before the MQTT connect is
\* attempted.
C21_AsStated ==
    /\ \A i, j \in DOMAIN trace :
         (i < j /\ StatedRank(trace[i]) > 0 /\ StatedRank(trace[j]) > 0)
            => StatedRank(trace[i]) < StatedRank(trace[j])
    /\ \A i \in Places("mqtt_connect") : \E j \in Places("scanner_start") : j < i

-----------------------------------------------------------------------------
(* C22 *)

\* startup ended in initialize() and the loop of run() was never entered
Aborted == app_pc = "failed" \/ (app_pc \in {"down", "exit"} /\ Places("run_loop") = {})

\* C22: when hardware initialisation raises or the network is not connected,
\* run() does not reach its loop; from then on the scanner has not been
\* started, the periodic and the MQTT task do not exist, no MQTT connect has
\* been attempted, and shutdown() is what run() executes next.
C22_FailedStartupAborts ==
    /\ (IsStartup /\ ~(req.hardware_ok /\ req.network_ok)) => app_pc = "failed"
    /\ Aborted =>
         /\ ~running
         /\ scan_pc = "unstarted"
         /\ ~tasks
         /\ ~connected
         /\ Places("scanner_start") = {}
         /\ Places("mqtt_connect") = {}
         /\ Places("tasks") = {}
    /\ (app_pc = "failed" /\ Idle) => ENABLED ShutdownStep
    /\ (app_pc = "failed") => Places("shutdown") = {}
    /\ (Aborted /\ app_pc # "failed") => Places("shutdown") # {}

\* shutdown() has run after the network was found not connected, the
\* hardware manager existing; the scanner was never started
C22_Witness ==
    /\ IsShutdown
    /\ req.was = "failed"
    /\ hardware_manager
    /\ ~input_scanner
    /\ trace = <<"hardware_init", "network_check", "shutdown">>
    /\ ~running
    /\ ~tasks
    /\ Cardinality({i \in DOMAIN effects : effects[i].op = "relay_pin"}) = 2

-----------------------------------------------------------------------------
(* C23 *)

\* the transport could not be brought up at startup
Degraded == {"disabled", "no_library", "refused"}

\* C23: with hardware and network in order, startup succeeds although MQTT
\* is disabled, its library is missing or the broker refuses: the scanner is
\* started and the loop of run() entered with the transport not connected;
\* the transport stays not connected and a broadcast tick then publishes
\* nothing and raises nothing.
C23_DegradedStartup ==
    /\ (IsStartup /\ req.hardware_ok /\ req.network_ok /\ req.mode \in Degraded) =>
         /\ app_pc = "running"
         /\ running
         /\ scan_pc = "while"
         /\ tasks
         /\ mqtt = "set"
         /\ ~connected
         /\ effects = <<>>
         /\ trace[Len(trace)] = "run_loop"
    /\ (app_pc = "running" /\ Places("discovery") = {}) => ~connected
    /\ (IsTick /\ ~connected) => (effects = <<>> /\ resp = NoResponse(""))

\* a broadcast tick of an application that started without a transport, with
\* a dimmer on and inputs read: nothing is published
C23_Witness ==
    /\ IsTick
    /\ app_pc = "running"
    /\ Places("mqtt_connect") # {}
    /\ Places("discovery") = {}
    /\ ~connected
    /\ running
    /\ DOMAIN input_states # {}
    /\ effects = <<>>

-----------------------------------------------------------------------------
(* C24 *)

\* C24: shutdown() returns without an exception from every state it is
\* called in, after a failed initialisation and on its second call too; when
\* the transport was connected the retained "offline" is published and the
\* transport is not connected afterwards, whether or not an off-write of the
\* hardware failed.
C24_ShutdownNeverRaises ==
    IsShutdown =>
        /\ resp.kind = "none"
        /\ resp.message = ""
        /\ ~connected
        /\ ~running
        /\ req.was_connected =>
              /\ Len(effects) > 0
              /\ IsOffline(effects[Len(effects)])
              /\ Cardinality({i \in DOMAIN effects : IsOffline(effects[i])}) = 1
        /\ ~req.was_connected => \A i \in DOMAIN effects : ~IsOffline(effects[i])

\* shutdown() with the transport connected and the off-write of channel 0
\* failing: "offline" is published and the transport is not connected
C24_Witness ==
    /\ IsShutdown
    /\ req.was = "interrupted"
    /\ req.was_connected
    /\ req.fault_channel = 0
    /\ resp.status = ""
    /\ IsOffline(effects[Len(effects)])
    /\ ~connected

-----------------------------------------------------------------------------
(* C25 *)

\* C25 as stated: a shutdown attempts an off-write for each of the 16 dimmer
\* channels and for both relays, also when an earlier off-write of the same
\* shutdown fails.
C25_AsStated ==
    (IsShutdown /\ hardware_manager) =>
        /\ pca_valid =>
             \A c \in 0..15 :
                \E i \in DOMAIN effects :
                    effects[i].op = "set_level" /\ effects[i].ch = c /\ effects[i].val = 0
        /\ \A pin \in 1..2 :
             \E i \in DOMAIN effects :
                effects[i].op = "relay_pin" /\ effects[i].ch = pin /\ effects[i].val = 0

-----------------------------------------------------------------------------
(* C26 *)

\* the state messages of the last step on one topic
OnTopic(topic) == {i \in DOMAIN effects : effects[i].op = "publish" /\ effects[i].key = topic}

\* C26: a broadcast tick with the transport connected emits exactly one
\* retained state message for each dimmer 0..15, each relay 1..2 and each
\* input 1..16 that DeviceState holds, none for an input never read and no
\* other state message, each carrying the value of the snapshot the tick
\* took.
C26_BroadcastMirrorsSnapshot ==
    (IsTick /\ connected) =>
        /\ \A c \in 0..15 :
             /\ Cardinality(OnTopic(DimmerStateTopic(c))) = 1
             /\ \A i \in OnTopic(DimmerStateTopic(c)) :
                  /\ effects[i].val = Snapshot.dimmers[PwmName(c)]
                  /\ (effects[i].aux = "ON") = (Snapshot.dimmers[PwmName(c)] > 0)
        /\ \A r \in 1..2 :
             /\ Cardinality(OnTopic(RelayStateTopic(r))) = 1
             /\ \A i \in OnTopic(RelayStateTopic(r)) :
                  (effects[i].aux = "ON") = Snapshot.relays[RelayName(r)]
        /\ \A x \in 1..16 :
             IF InputName(x) \in DOMAIN Snapshot.inputs
             THEN /\ Cardinality(OnTopic(InputStateTopic(x))) = 1
                  /\ \A i \in OnTopic(InputStateTopic(x)) :
                       (effects[i].aux = "ON") = Snapshot.inputs[InputName(x)]
             ELSE OnTopic(InputStateTopic(x)) = {}
        /\ Len(Published(effects)) = 18 + Cardinality(DOMAIN Snapshot.inputs)

\* a broadcast with dimmer 3 at 42, relay 1 on and only the inputs 9..16
\* read: 26 state messages
C26_Witness ==
    /\ IsTick
    /\ connected
    /\ dimmer_levels[PwmName(3)] = 42
    /\ relay_states[RelayName(1)]
    /\ DOMAIN input_states = {InputName(x) : x \in 9..16}
    /\ Len(Published(effects)) = 26
    /\ \E i \in OnTopic(DimmerStateTopic(3)) : effects[i].val = 42 /\ effects[i].aux = "ON"
    /\ \E i \in OnTopic(DimmerStateTopic(0)) : effects[i].val = 0 /\ effects[i].aux = "OFF"

-----------------------------------------------------------------------------
(* C27 *)

\* C27: for every level in 0..100 the dimmer state message carries the level
\* as brightness, and state "ON" when the level is above 0, "OFF" when it is 0.
C27_DimmerStatePayload ==
    (req.kind = "publish_dimmer" /\ req.percent \in 0..100) =>
        /\ Len(effects) = 1
        /\ effects[1].op = "publish"
        /\ effects[1].key = DimmerStateTopic(req.channel_index)
        /\ effects[1].val = req.percent
        /\ (effects[1].aux = "ON") = (req.percent > 0)
        /\ (effects[1].aux = "OFF") = (req.percent = 0)

\* level 0 published as {OFF, 0}
C27_Witness ==
    /\ req.kind = "publish_dimmer"
    /\ req.percent = 0
    /\ effects[1].aux = "OFF"
    /\ effects[1].val = 0

-----------------------------------------------------------------------------
(* C28 *)

\* one call's messages: 16 lights, 2 switches and 16 binary sensors in this
\* order, with pairwise distinct topics and unique ids
FullDiscovery(msgs) ==
    /\ Len(msgs) = 34
    /\ \A k \in 1..16 : msgs[k].aux = "light" /\ msgs[k].ch = k - 1
    /\ \A k \in 17..18 : msgs[k].aux = "switch" /\ msgs[k].ch = k - 16
    /\ \A k \in 19..34 : msgs[k].aux = "binary_sensor" /\ msgs[k].ch = k - 18
    /\ \A j, k \in 1..34 :
         j # k => /\ msgs[j].key # msgs[k].key
                  /\ msgs[j].val.unique_id # msgs[k].val.unique_id

-----------------------------------------------------------------------------
(* C29 *)

\* the payload is the text "online" in some letter case
IsOnlineText(payload) ==
    ~payload.isdict /\ payload.v.t = "str" /\ Lower(payload.v.s) = S_online

\* C29: on a connected transport a message on the status topic whose payload
\* is "online" in any letter case republishes the whole discovery set within
\* its handling and does not reach the command router; every message that
\* reaches the router, any other payload on the status topic among them,
\* publishes no discovery.
C29_BirthRepublishesDiscovery ==
    /\ req.kind = "birth" =>
         /\ req.topic = StatusTopic
         /\ IsOnlineText(req.payload)
         /\ connected
         /\ Len(effects) = 34
         /\ Emitted(effects) = effects
    /\ req.kind = "mqtt" =>
         /\ ~(req.topic = StatusTopic /\ IsOnlineText(req.payload))
         /\ Emitted(effects) = <<>>
         /\ req.topic = StatusTopic => effects = <<>>

\* "ONLINE" on the status topic: discovery republished, DeviceState as it was
C29_Witness ==
    /\ req.kind = "birth"
    /\ req.payload.v.s = S_ONLINE
    /\ Len(Emitted(effects)) = 34
    /\ dimmer_levels[PwmName(3)] = 42

-----------------------------------------------------------------------------
(* C30 *)

\* the update_dimmer calls of a step that passed, for channel nm
UpdatesOf(log, nm) ==
    {i \in DOMAIN log : log[i].op = "update_dimmer" /\ log[i].key = nm}

\* what a step may do to the last non-zero levels
LastNonZeroStep ==
    /\ \A nm \in DOMAIN last_non_zero_levels' :
         (nm \notin DOMAIN last_non_zero_levels
          \/ last_non_zero_levels'[nm] # last_non_zero_levels[nm]) =>
             \E i \in UpdatesOf(effects', nm) :
                 /\ effects'[i].val > 0
                 /\ last_non_zero_levels'[nm] = effects'[i].val
    /\ DOMAIN last_non_zero_levels \subseteq DOMAIN last_non_zero_levels'
    /\ \A k \in DOMAIN effects' :
         (effects'[k].op = "update_dimmer" /\ effects'[k].val > 0 /\ ~Idle') =>
             last_non_zero_levels'[effects'[k].key] = effects'[k].val

\* C30: the last non-zero level of a channel changes only in a step whose
\* update_dimmer of that channel passed with a level above 0, and then holds
\* that level; an update with level 0, a rejected update and an update of
\* another channel leave it as it was.
C30_LastNonZeroTracksOn == [][LastNonZeroStep]_vars

\* channel 3 switched off after it was at 42: the last non-zero level is kept
C30_Witness ==
    /\ IsSetDimmer(req)
    /\ UpdatesOf(effects, PWM3) # {}
    /\ dimmer_levels[PWM3] = 0
    /\ last_non_zero_levels[PWM3] = 42

-----------------------------------------------------------------------------
(* C31 *)

\* the byte the last scan read from the expander that serves input i (-1:
\* the read failed), and the bit of that byte that belongs to input i
ByteOf(i) == IF i <= 8 THEN req.d1 ELSE req.d2
PhysicalBit(i) == (ByteOf(i) \div (2 ^ ((i - 1) % 8))) % 2

\* C31: after a scan, for every input i in 1..16 whose expander was read,
\* the boolean DeviceState holds for X<i> is true exactly when bit
\* (i-1) mod 8 of the byte read from that expander is 0.
C31_InputsActiveLow ==
    req.kind = "scan" =>
        \A i \in 1..16 :
            ByteOf(i) # -1 =>
                /\ InputName(i) \in DOMAIN input_states
                /\ input_states[InputName(i)] = (PhysicalBit(i) = 0)

\* expander 1 read as 00000001 and expander 2 as 01111111: X01 is false,
\* X02 and X16 are true, X09 is false
C31_Witness ==
    /\ req.kind = "scan"
    /\ req.d1 = 1
    /\ req.d2 = 127
    /\ ~input_states[InputName(1)]
    /\ input_states[InputName(2)]
    /\ ~input_states[InputName(9)]
    /\ input_states[InputName(16)]

-----------------------------------------------------------------------------
(* C32 *)

\* the topic has exactly four segments: <prefix>/dimmer/<idx>/set or
\* <prefix>/relay/<idx>/set
HasCommandShape(topic) ==
    LET segs == Split(topic, "/")
    IN  /\ Len(segs) = 4
        /\ segs[1] = BaseTopic
        /\ segs[2] \in {<<"d", "i", "m", "m", "e", "r">>, <<"r", "e", "l", "a", "y">>}
        /\ segs[4] = <<"s", "e", "t">>

\* C32 as stated: an MQTT message is applied only when its topic has exactly
\* the shape <prefix>/dimmer/<idx>/set or <prefix>/relay/<idx>/set; a topic
\* with further segments between the prefix and /set, such as
\* <prefix>/dimmer/3/x/set, writes no output and changes no state.
C32_AsStated ==
    [][(Idle /\ req'.kind = "mqtt" /\ ~HasCommandShape(req'.topic))
        => /\ HardwareWrites(effects') = {}
           /\ pca_regs' = pca_regs
           /\ relay_pins' = relay_pins
           /\ dimmer_levels' = dimmer_levels
           /\ last_non_zero_levels' = last_non_zero_levels
           /\ relay_states' = relay_states]_vars

-----------------------------------------------------------------------------
(* C33 *)

\* the hardware write of the MQTT command handled last failed
HardwareWriteFailed(r, answer) == r.kind = "mqtt" /\ answer.message = "HardwareError"

\* C33: when the hardware write of an MQTT command fails with a hardware
\* error, the handler returns normally, DeviceState is what it was before the
\* command, and the command publishes no state message.
C33_FailedWriteLeavesState ==
    [][(Idle /\ HardwareWriteFailed(req', resp'))
        => /\ resp'.kind = "none"
           /\ DeviceState' = DeviceState
           /\ EffectsOf(effects', "publish") = {}
           /\ EffectsOf(effects', "update_dimmer") = {}
           /\ EffectsOf(effects', "update_relay") = {}]_vars

\* the third register write of "set dimmer 3 to 42" failed after PWM3 had
\* been set to 100: two registers were written, PWM3 is still 100
C33_Witness ==
    /\ HardwareWriteFailed(req, resp)
    /\ req.fault = 3
    /\ req.topic = DimmerSet(<<"3">>)
    /\ Cardinality(HardwareWrites(effects)) = 2
    /\ dimmer_levels[PWM3] = 100
    /\ EffectsOf(effects, "publish") = {}

-----------------------------------------------------------------------------
(* C34 *)

\* after stop() has returned the scan thread begins no further iteration,
\* and a loop that was left stays left
NoIterationAfterStop ==
    /\ stop_returned => ~(scan_pc = "while" /\ scan_pc' = "read1")
    /\ scan_pc = "exited" => scan_pc' = "exited"

\* C34: once stop() has been called the scan loop begins no new iteration,
\* so that at most the get_input_states() call of the iteration that had
\* already passed the loop test is still made, and then the loop is left;
\* under fair scheduling of the scan thread the loop is eventually left,
\* whether the reads fail or not.
C34_StopEndsScanLoop ==
    /\ [][NoIterationAfterStop]_vars
    /\ (stop_returned ~> scan_pc = "exited")

\* the loop has been left after stop(), the last read of expander 1 having
\* failed
C34_Witness ==
    /\ stop_returned
    /\ ~running
    /\ scan_pc = "exited"
    /\ DOMAIN prev_inputs = {InputName(i) : i \in 9..16}

-----------------------------------------------------------------------------
(* C35 *)

\* C35 as stated: in every reachable state the keys of DeviceState's dimmer
\* map are exactly PWM0..PWM15 and the keys of its relay map exactly Relay1
\* and Relay2; no command, a set_dimmer for "PWM05" included, adds or
\* removes a key.
C35_AsStated ==
    /\ DOMAIN dimmer_levels = CanonicalDimmers
    /\ DOMAIN relay_states = {Relay1, Relay2}

-----------------------------------------------------------------------------
(* C36 *)

\* the inputs the last scan's reads covered
Covered(r) ==
    {InputName(i) : i \in {j \in 1..8 : r.d1 # -1}}
    \cup {InputName(i) : i \in {j \in 9..16 : r.d2 # -1}}

\* what a scan may do to the inputs DeviceState holds
InputsKeptStep ==
    /\ DOMAIN input_states \subseteq DOMAIN input_states'
    /\ (Idle /\ req'.kind = "scan") =>
          /\ DOMAIN input_states' = DOMAIN input_states \cup Covered(req')
          /\ \A nm \in DOMAIN input_states \ Covered(req') :
                input_states'[nm] = input_states[nm]

\* C36: an input id that DeviceState holds is never removed; a scan in which
\* one or both expander reads fail leaves the inputs it did not cover
\* present with the value of the last read that covered them.
C36_InputsNeverRemoved == [][InputsKeptStep]_vars

\* the read of expander 1 failed after a scan that had read it as 11111110:
\* X01 is still held, and true; and so it is after both reads failed
C36_Witness ==
    /\ req.kind = "scan"
    /\ req.d1 = -1
    /\ req.d2 = -1
    /\ prev_inputs = EmptyDict
    /\ Cardinality(DOMAIN input_states) = 16
    /\ input_states[InputName(1)]
    /\ ~input_states[InputName(2)]

-----------------------------------------------------------------------------
(* C37 *)

\* the level the PWM registers of a channel hold: the one whose pulse width
\* is the channel's OFF count (the widths of 0..100 are pairwise different)
HardwareLevel(regs, channel) ==
    CHOOSE level \in 0..100 : Pulse(level) = OffCount(regs, channel)

\* C37, as stated: after completed dimmer commands the level DeviceState holds
\* under PWM<c> is the level last written to the PWM registers of channel c
\* (0 when none was written), for every c in 0..15.
C37_AsStated ==
    pca_valid =>
        \A c \in 0..15 :
            /\ \E level \in 0..100 : Pulse(level) = OffCount(pca_regs, c)
            /\ dimmer_levels[PwmName(c)] = HardwareLevel(pca_regs, c)

=============================================================================
